---- MODULE Spec2Model ----
(***************************************************************************)
(* bpass: the sync engine (uiContext.sync and its helpers), the host-key   *)
(* callback and the transaction log it merges.                             *)
(*                                                                         *)
(* Strings that the code formats, splits or searches are sequences of      *)
(* tokens (a token is a TLA+ string; " " is the space character), so that  *)
(* fmt.Sprintf / strings.Split / strings.Contains are computed, not        *)
(* assumed.  Every Tx value is such a sequence.                            *)
(***************************************************************************)
EXTENDS Integers, Sequences, FiniteSets, TLC

----------------------------------------------------------------------------
(* Bounds of the model *)

\* number of sync entries held by the local store
MaxSyncs == 2
\* length of the known_hosts list of a sync entry
MaxKnown == 2
\* answers a user gives to one prompt loop before the input ends
MaxPrompts == 2
\* bytes of a file whose contents are enumerated
MaxData == 2
\* operations in a history of the store
MaxOps == 5
\* answers given to one prompt loop of the ui helpers
MaxAnswers == 4

----------------------------------------------------------------------------
(* Vocabulary: txblob keys, txformat kinds *)

KeyName == "name"
KeySync == "sync"
KeySyncKind == "synckind"
KeyPath == "path"
KeyHost == "host"
KeyPort == "port"
KeyUser == "user"
KeyPass == "pass"
KeyKnownHosts == "known_hosts"
syncSSH == "ssh"

TxSet == "TxSet"
TxAddList == "TxAddList"
TxDeleteKey == "TxDeleteKey"
TxDeleteList == "TxDeleteList"

\* a one-token string
S(x) == <<x>>

Range(s) == {s[n] : n \in DOMAIN s}

\* lexicographic rank of the strings that are compared when a log is sorted
StrOrder == <<"", "TxAddList", "TxDeleteKey", "TxDeleteList", "TxSet", "e",
              "host", "known_hosts", "name", "pass", "path", "port", "s1",
              "s2", "s3", "sync", "synckind", "user", "x">>

StrRankMap == [s \in {StrOrder[n] : n \in DOMAIN StrOrder} |->
                  CHOOSE n \in DOMAIN StrOrder : StrOrder[n] = s]

StrRank(s) == StrRankMap[s]

----------------------------------------------------------------------------
(* txformat: transactions, sorting, materialization, merge *)

Tx(time, kind, uuid, key, value, index) ==
    [Time |-> time, Kind |-> kind, UUID |-> uuid, Key |-> key,
     Value |-> value, Index |-> index]

\* order of the log: (time, uuid, key, kind, index)
TxLess(a, b) ==
    IF a.Time # b.Time THEN a.Time < b.Time
    ELSE IF a.UUID # b.UUID THEN StrRank(a.UUID) < StrRank(b.UUID)
    ELSE IF a.Key # b.Key THEN StrRank(a.Key) < StrRank(b.Key)
    ELSE IF a.Kind # b.Kind THEN StrRank(a.Kind) < StrRank(b.Kind)
    ELSE a.Index < b.Index

\* insert t into a sorted sequence, after the transactions it does not precede
RECURSIVE InsertTx(_, _)
InsertTx(sorted, t) ==
    IF sorted = <<>> \/ ~TxLess(t, sorted[Len(sorted)])
    THEN Append(sorted, t)
    ELSE Append(InsertTx(SubSeq(sorted, 1, Len(sorted) - 1), t), sorted[Len(sorted)])

\* stable sort of a sequence of transactions
RECURSIVE SortTx(_)
SortTx(txs) ==
    IF txs = <<>> THEN <<>>
    ELSE InsertTx(SortTx(SubSeq(txs, 1, Len(txs) - 1)), txs[Len(txs)])

\* a set of transactions as a sequence, in some order
RECURSIVE SeqOf(_)
SeqOf(set) ==
    IF set = {} THEN <<>>
    ELSE LET t == CHOOSE x \in set : TRUE IN <<t>> \o SeqOf(set \ {t})

Scalar(v) == [isList |-> FALSE, s |-> v, l |-> <<>>]
List(l) == [isList |-> TRUE, s |-> <<>>, l |-> l]

PutKey(f, k, v) == [x \in DOMAIN f \cup {k} |-> IF x = k THEN v ELSE f[x]]
DropKey(f, k) == [x \in DOMAIN f \ {k} |-> f[x]]

EmptyMap == [x \in {} |-> {}]

\* one step of the fold: st = [ents, tomb, ok]
ApplyTx(st, t) ==
    LET u == t.UUID
        k == t.Key
        ent == IF u \in DOMAIN st.ents THEN st.ents[u] ELSE EmptyMap
    IN  CASE t.Kind = TxSet ->
               [st EXCEPT !.ents = PutKey(st.ents, u, PutKey(ent, k, Scalar(t.Value))),
                          !.tomb = st.tomb \ {u}]
          [] t.Kind = TxAddList ->
               IF k \in DOMAIN ent /\ ~ent[k].isList
               THEN [st EXCEPT !.ok = FALSE]
               ELSE LET old == IF k \in DOMAIN ent THEN ent[k].l ELSE <<>>
                        new == Append(old, [Index |-> t.Index, Value |-> t.Value])
                    IN  [st EXCEPT !.ents = PutKey(st.ents, u, PutKey(ent, k, List(new)))]
          [] t.Kind = TxDeleteKey ->
               IF k = ""
               THEN [st EXCEPT !.ents = DropKey(st.ents, u), !.tomb = st.tomb \cup {u}]
               ELSE IF k \notin DOMAIN ent
                    THEN [st EXCEPT !.ok = FALSE]
                    ELSE [st EXCEPT !.ents = PutKey(st.ents, u, DropKey(ent, k))]
          [] t.Kind = TxDeleteList ->
               IF k \notin DOMAIN ent \/ ~ent[k].isList
               THEN [st EXCEPT !.ok = FALSE]
               ELSE LET old == ent[k].l
                        new == SelectSeq(old, LAMBDA p : p.Index # t.Index)
                    IN  [st EXCEPT !.ents = PutKey(st.ents, u, PutKey(ent, k, List(new)))]

RECURSIVE Fold(_, _)
Fold(st, txs) ==
    IF txs = <<>> \/ ~st.ok THEN st
    ELSE Fold(ApplyTx(st, Head(txs)), Tail(txs))

\* Store.UpdateSnapshot: [ok, snap]
Materialize(log) ==
    LET st == Fold([ents |-> EmptyMap, tomb |-> {}, ok |-> TRUE], SortTx(log))
    IN  [ok |-> st.ok, snap |-> st.ents]

IsEntryDelete(t) == t.Kind = TxDeleteKey /\ t.Key = ""

Conflict(d, t) == [DeleteTx |-> d, SetTx |-> t, resolution |-> "none"]

\* Conflict.Restore / Conflict.Delete: record the chosen resolution
Restore(cf) == [cf EXCEPT !.resolution = "restore"]
Delete(cf) == [cf EXCEPT !.resolution = "delete"]

\* resolutions that take out the other transaction of the pair
DroppedSwapped(resolved) ==
    {resolved[n].SetTx : n \in {m \in DOMAIN resolved : resolved[m].resolution = "restore"}}
    \cup
    {resolved[n].DeleteTx : n \in {m \in DOMAIN resolved : resolved[m].resolution = "delete"}}

\* transactions that resolved conflicts take out of the merged log
Dropped(resolved) ==
    {resolved[n].DeleteTx : n \in {m \in DOMAIN resolved : resolved[m].resolution = "restore"}}
    \cup
    {resolved[n].SetTx : n \in {m \in DOMAIN resolved : resolved[m].resolution = "delete"}}

\* the scan of the merged log: sc = [tomb, out]; tomb maps a tombstoned
\* uuid to the delete that tombstoned it
RECURSIVE Scan(_, _, _, _)
Scan(sc, txs, onlyA, onlyB) ==
    IF txs = <<>> THEN sc.out
    ELSE LET t == Head(txs)
             u == t.UUID
             d == sc.tomb[u]
             hit == /\ u \in DOMAIN sc.tomb
                    /\ ~IsEntryDelete(t)
                    /\ d.Time < t.Time
                    /\ \/ d \in onlyA /\ t \in onlyB
                       \/ d \in onlyB /\ t \in onlyA
             out == IF hit THEN Append(sc.out, Conflict(d, t)) ELSE sc.out
             tomb == IF IsEntryDelete(t) THEN PutKey(sc.tomb, u, t)
                     ELSE IF t.Kind = TxSet THEN DropKey(sc.tomb, u)
                     ELSE sc.tomb
         IN  Scan([tomb |-> tomb, out |-> out], Tail(txs), onlyA, onlyB)

\* a merge that keeps the transactions of b that a holds too
MergeKeepsBoth(a, b, resolved) ==
    LET drop == Dropped(resolved)
        m == SortTx(SelectSeq(a \o b, LAMBDA t : t \notin drop))
    IN  [log |-> m,
         conflicts |-> Scan([tomb |-> EmptyMap, out |-> <<>>], m,
                            Range(a) \ Range(b), Range(b) \ Range(a))]

\* txformat.Merge(a, b, resolved) -> [log, conflicts]
Merge(a, b, resolved) ==
    LET sa == Range(a)
        sb == Range(b)
        drop == Dropped(resolved)
        \* a, then the transactions of b that a does not hold
        union == SelectSeq(a, LAMBDA t : t \notin drop)
                 \o SelectSeq(b, LAMBDA t : t \notin sa /\ t \notin drop)
        m  == SortTx(union)
    IN  [log |-> m,
         conflicts |-> Scan([tomb |-> EmptyMap, out |-> <<>>], m, sa \ sb, sb \ sa)]

----------------------------------------------------------------------------
(* Serialized log and encrypted container *)

\* Store.Save: the serialized log
Save(log) == [nil |-> FALSE, wellformed |-> TRUE, txs |-> log]

\* a payload that does not parse
CorruptPayload == [nil |-> FALSE, wellformed |-> FALSE, txs |-> <<>>]

\* a nil []byte
NilBytes == [nil |-> TRUE, wellformed |-> FALSE, txs |-> <<>>]

\* txformat.NewLog: [err, log]
NewLog(pt) ==
    IF pt.nil \/ ~pt.wellformed
    THEN [err |-> "ErrCorruptLog", log |-> <<>>]
    ELSE [err |-> "nil", log |-> pt.txs]

\* crypt.Encrypt under the key derived from a passphrase
Encrypt(passphrase, pt) == [pass |-> passphrase, intact |-> TRUE, pt |-> pt]

\* crypt.Decrypt: [err, pt]
Decrypt(passphrase, blob) ==
    IF ~blob.intact THEN [err |-> "ErrCorrupt", pt |-> NilBytes]
    ELSE IF blob.pass # passphrase THEN [err |-> "ErrWrongPassphrase", pt |-> NilBytes]
    ELSE [err |-> "nil", pt |-> blob.pt]

----------------------------------------------------------------------------
(* scpsync: reply errors *)

Err(code, msg) == [type |-> "Err", Code |-> code, Msg |-> msg]
OtherError(what) == [type |-> what, Code |-> 0, Msg |-> <<>>]
NoError == [type |-> "nil", Code |-> 0, Msg |-> <<>>]

UpperCase == <<"A", "B", "C", "D", "E", "F", "G", "H", "I", "J", "K", "L", "M",
               "N", "O", "P", "Q", "R", "S", "T", "U", "V", "W", "X", "Y", "Z">>
LowerCase == <<"a", "b", "c", "d", "e", "f", "g", "h", "i", "j", "k", "l", "m",
               "n", "o", "p", "q", "r", "s", "t", "u", "v", "w", "x", "y", "z">>

\* strings.ToLower, one character
ToLowerChar(ch) ==
    IF \E n \in DOMAIN UpperCase : UpperCase[n] = ch
    THEN LowerCase[CHOOSE n \in DOMAIN UpperCase : UpperCase[n] = ch]
    ELSE ch

ToLower(str) == [n \in DOMAIN str |-> ToLowerChar(str[n])]

\* strings.Contains
Contains(str, sub) ==
    \E off \in 0..(Len(str) - Len(sub)) :
        \A n \in 1..Len(sub) : str[off + n] = sub[n]

NoSuchFile == <<"n", "o", " ", "s", "u", "c", "h", " ", "f", "i", "l", "e", " ",
                "o", "r", " ", "d", "i", "r", "e", "c", "t", "o", "r", "y">>

\* IsNotFoundErr comparing the message without strings.ToLower
IsNotFoundErrCaseSensitive(err) ==
    /\ err.type = "Err"
    /\ err.Code = 1
    /\ Contains(err.Msg, NoSuchFile)

\* IsNotFoundErr without the test of the code
IsNotFoundErrAnyCode(err) ==
    /\ err.type = "Err"
    /\ Contains(ToLower(err.Msg), NoSuchFile)

\* scpsync.IsNotFoundErr
IsNotFoundErr(err) ==
    /\ err.type = "Err"
    /\ err.Code = 1
    /\ Contains(ToLower(err.Msg), NoSuchFile)

----------------------------------------------------------------------------
(* scpsync: bytes, headers, numbers.  A byte is a token; NUL, SOH and STX
   are the bytes 0, 1 and 2.  A number on the wire is its digit string, so
   that lengths beyond the model checker's integers can be parsed. *)

NUL == "NUL"
SOH == "SOH"
STX == "STX"
LF == "\n"

Digits == <<"0", "1", "2", "3", "4", "5", "6", "7", "8", "9">>

DigitVal(ch) == (CHOOSE n \in DOMAIN Digits : Digits[n] = ch) - 1

IsDigit(ch, base) == \E n \in 1..base : Digits[n] = ch

\* the digits of n >= 0 in a base: %o and %d
RECURSIVE FormatInt(_, _)
FormatInt(n, base) ==
    IF n < base THEN <<Digits[n + 1]>>
    ELSE Append(FormatInt(n \div base, base), Digits[(n % base) + 1])

\* digit strings without leading zeros, compared as numbers
DigitsLeq(a, b) ==
    \/ Len(a) < Len(b)
    \/ /\ Len(a) = Len(b)
       /\ \/ a = b
          \/ \E n \in DOMAIN a :
                /\ \A m \in 1..(n - 1) : a[m] = b[m]
                /\ DigitVal(a[n]) < DigitVal(b[n])

RECURSIVE StripZeros(_)
StripZeros(ds) == IF Len(ds) > 1 /\ ds[1] = "0" THEN StripZeros(Tail(ds)) ELSE ds

RECURSIVE DigitsValue(_, _)
DigitsValue(ds, base) ==
    IF ds = <<>> THEN 0
    ELSE DigitsValue(SubSeq(ds, 1, Len(ds) - 1), base) * base + DigitVal(ds[Len(ds)])

\* the largest int32
MaxInt32 == 2147483647

\* strconv.ParseInt(str, base, 32): [err, v]
ParseInt32(str, base) ==
    LET neg == str # <<>> /\ str[1] = "-"
        ds == IF str # <<>> /\ str[1] \in {"+", "-"} THEN Tail(str) ELSE str
    IN  IF ds = <<>> \/ \E n \in DOMAIN ds : ~IsDigit(ds[n], base)
        THEN [err |-> "ErrSyntax", v |-> 0]
        ELSE IF ~DigitsLeq(StripZeros(ds), FormatInt(MaxInt32, base))
        THEN [err |-> "ErrRange", v |-> 0]
        ELSE [err |-> "nil",
              v |-> IF neg THEN 0 - DigitsValue(ds, base) ELSE DigitsValue(ds, base)]

IsSpace(ch) == ch \in {" ", "\t", LF, "\r"}

\* strings.Fields
RECURSIVE Fields(_)
Fields(str) ==
    IF str = <<>> THEN <<>>
    ELSE IF IsSpace(str[1]) THEN Fields(Tail(str))
    ELSE LET stop == IF \E n \in DOMAIN str : IsSpace(str[n])
                     THEN CHOOSE n \in DOMAIN str :
                              IsSpace(str[n]) /\ \A m \in 1..(n - 1) : ~IsSpace(str[m])
                     ELSE Len(str) + 1
         IN  <<SubSeq(str, 1, stop - 1)>> \o Fields(SubSeq(str, stop, Len(str)))

\* filepath.Base of a path without trailing separators
RECURSIVE Base(_)
Base(path) ==
    IF path = <<>> THEN <<".">>
    ELSE IF \E n \in DOMAIN path : path[n] = "/"
    THEN Base(SubSeq(path, (CHOOSE n \in DOMAIN path : path[n] = "/") + 1, Len(path)))
    ELSE path

\* fmt.Fprintf(stream, "C0%o %d %s\n", mode, ln, filepath.Base(filename));
\* ln is given by its digits
FormatHeader(mode, lnDigits, filename) ==
    <<"C", "0">> \o FormatInt(mode, 8) \o <<" ">> \o lnDigits \o <<" ">>
    \o Base(filename) \o <<LF>>

\* reader.ReadString('\n'): the line with its newline, and the rest
ReadString(bytes) ==
    LET p == CHOOSE n \in DOMAIN bytes : bytes[n] = LF /\ \A m \in 1..(n - 1) : bytes[m] # LF
    IN  [line |-> SubSeq(bytes, 1, p), rest |-> SubSeq(bytes, p + 1, Len(bytes))]

HasLine(bytes) == \E n \in DOMAIN bytes : bytes[n] = LF

\* int(str[0]) of a reply byte
ByteCode(b) == IF b = SOH THEN 1 ELSE 2

\* readFile from the header line to the acknowledgement of the header:
\* [err, file]; err is NoError when the header is accepted
ParseHeader(str) ==
    LET none == [Mode |-> 0, Length |-> 0, Filename |-> <<>>]
    IN  IF str[1] \in {SOH, STX}
        THEN [err |-> Err(ByteCode(str[1]), Tail(str)), file |-> none]
        ELSE IF str[1] # "C"
        THEN [err |-> OtherError("want initial character C"), file |-> none]
        ELSE LET fields == Fields(Tail(str))
             IN  IF Len(fields) # 3
                 THEN [err |-> OtherError("protocol demands 3 fields"), file |-> none]
                 ELSE LET mode == ParseInt32(fields[1], 8)
                          length == ParseInt32(fields[2], 10)
                      IN  IF mode.err # "nil"
                          THEN [err |-> OtherError("failed to parse the mode"), file |-> none]
                          ELSE IF length.err # "nil"
                          THEN [err |-> OtherError("failed to parse the length"), file |-> none]
                          ELSE [err |-> NoError,
                                file |-> [Mode |-> mode.v, Length |-> length.v,
                                          Filename |-> fields[3]]]

----------------------------------------------------------------------------
(* hostAsker *)

\* strings.Split(str, " ")
RECURSIVE Split(_)
Split(str) ==
    IF \A n \in DOMAIN str : str[n] # " " THEN <<str>>
    ELSE LET p == CHOOSE n \in DOMAIN str :
                     str[n] = " " /\ \A o \in 1..(n - 1) : str[o] # " "
         IN  <<SubSeq(str, 1, p - 1)>> \o Split(SubSeq(str, p + 1, Len(str)))

\* a host line written without the address
HostLineNoAddr(hostname, addr, keyType, keyHash) ==
    hostname \o S(" ") \o keyType \o S(" ") \o keyHash

\* fmt.Sprintf(`%s %s %s %s`, hostname, addr, keyType, keyHash)
HostLine(hostname, addr, keyType, keyHash) ==
    hostname \o S(" ") \o addr \o S(" ") \o keyType \o S(" ") \o keyHash

\* the loop of hostAsker.callback over the known list:
\* "ok", "mitm", "panic" (index out of range) or "unknown" (falls to the prompt)
RECURSIVE CheckKnown(_, _, _, _)
CheckKnown(known, hostname, keyType, keyHash) ==
    IF known = <<>> THEN "unknown"
    ELSE LET vals == Split(Head(known).Value)
         IN  IF vals[1] # hostname
             THEN CheckKnown(Tail(known), hostname, keyType, keyHash)
             ELSE IF Len(vals) < 3 THEN "panic"
             ELSE IF vals[3] # keyType THEN "mitm"
             ELSE IF Len(vals) < 4 THEN "panic"
             ELSE IF vals[4] # keyHash THEN "mitm"
             ELSE "ok"

----------------------------------------------------------------------------
(* The store and the inputs of a sync *)

\* u.pass, the passphrase of the local store
LocalPass == "p"

SyncUUIDs == <<"s1", "s2", "s3">>

\* the keys syncAdd writes for an ssh sync entry, and their values
ConfigValue(uuid, key) ==
    CASE key = KeyName -> S(uuid)
      [] key = KeySync -> S("true")
      [] key = KeySyncKind -> S(syncSSH)
      [] key = KeyPath -> S("f")
      [] key = KeyHost -> S("h")
      [] key = KeyPort -> S("22")
      [] key = KeyUser -> S("u")

FullKeys == {KeyName, KeySync, KeySyncKind, KeyPath, KeyHost, KeyPort, KeyUser}
\* an entry whose user key was deleted: collected, but sshConfig rejects it
NoUserKeys == FullKeys \ {KeyUser}

ConfigTxs(uuid, keys) == {Tx(0, TxSet, uuid, k, ConfigValue(uuid, k), 0) : k \in keys}

\* net.JoinHostPort(host, port)
JoinHostPort(host, port) == host \o S(":") \o port

\* keys a server can present: Type is key.Type(), Hash the hex sha256
HostKeys == {[Type |-> S("ssh-rsa"), Hash |-> S("aa")],
             [Type |-> S("ssh-rsa"), Hash |-> S("cc")],
             [Type |-> S("ssh-ed25519"), Hash |-> S("bb")]}

RemoteAddr == S("10.0.0.1:22")

FirstKey == [Type |-> S("ssh-rsa"), Hash |-> S("aa")]
\* a key of the same type with another hash
RotatedKey == [Type |-> S("ssh-rsa"), Hash |-> S("cc")]

KnownTx(uuid) ==
    Tx(0, TxAddList, uuid, KeyKnownHosts,
       HostLine(JoinHostPort(S("h"), S("22")), RemoteAddr, FirstKey.Type, FirstKey.Hash), 1)

\* lines a known_hosts list may hold: the host of the entry under each key,
\* and another host
KnownLines ==
    {HostLine(JoinHostPort(S("h"), S("22")), RemoteAddr, k.Type, k.Hash) : k \in HostKeys}
    \cup {HostLine(JoinHostPort(S("g"), S("22")), S("10.0.0.2:22"), FirstKey.Type, FirstKey.Hash)}

\* the transactions that built a known_hosts list
KnownListTxs(uuid, lines) ==
    {Tx(0, TxAddList, uuid, KeyKnownHosts, lines[k], k) : k \in DOMAIN lines}

SetX1 == Tx(1, TxSet, "x", KeyPass, S("v1"), 0)
DelX3 == Tx(3, TxDeleteKey, "x", "", <<>>, 0)
SetX5 == Tx(5, TxSet, "x", KeyPass, S("y"), 0)
SetE2 == Tx(2, TxSet, "e", KeyUser, S("alice"), 0)
DelE3 == Tx(3, TxDeleteKey, "e", KeyUser, <<>>, 0)

\* the data part of the local log: entry x was set, then deleted
LocalData == {SetX1, DelX3}

\* the logs peers hold; the last one alone deletes a key that it never set
PeerLogs == {<<SetE2>>, <<SetX5>>, <<DelE3>>}

\* what a peer's file may hold: a log under the local passphrase, a log
\* under another passphrase, a payload that does not parse, a damaged file
Blobs ==
    {Encrypt(LocalPass, Save(l)) : l \in PeerLogs}
    \cup {Encrypt("q", Save(<<SetE2>>))}
    \cup {Encrypt(LocalPass, CorruptPayload)}
    \cup {[pass |-> LocalPass, intact |-> FALSE, pt |-> CorruptPayload]}

MsgNotFound == <<"s", "c", "p", ":", " ", "f", ":", " ", "N", "o", " ", "s", "u",
                 "c", "h", " ", "f", "i", "l", "e", " ", "o", "r", " ", "d",
                 "i", "r", "e", "c", "t", "o", "r", "y", "\n">>
MsgDenied == <<"s", "c", "p", ":", " ", "f", ":", " ", "d", "e", "n", "i", "e", "d", "\n">>

\* replies of the remote scp in place of the header
Replies == {Err(1, MsgNotFound), Err(1, MsgDenied), Err(2, MsgNotFound)}

\* results of u.prompt: (line, err)
Answer(line, err) == [line |-> line, err |-> err]
PromptErrors == {"ErrEnd", "ErrInterrupt"}

Perms(set) ==
    {f \in [1..Cardinality(set) -> set] : \A a, b \in DOMAIN f : a # b => f[a] # f[b]}

Inc(seq, k) == [seq EXCEPT ![k] = @ + 1]

----------------------------------------------------------------------------
(* Entry accessors *)

\* Entry.String: [err, v]
EntryString(entry, key) ==
    IF key \in DOMAIN entry /\ ~entry[key].isList
    THEN [err |-> FALSE, v |-> entry[key].s]
    ELSE [err |-> TRUE, v |-> <<>>]

\* Entry.List: the list, nil when the key is missing
EntryList(entry, key) ==
    IF key \in DOMAIN entry /\ entry[key].isList THEN entry[key].l ELSE <<>>

\* highest list index among the elements that are still in the list
MaxIndexLive(log, uuid, key) ==
    LET mine == {m \in DOMAIN log : log[m].UUID = uuid /\ log[m].Key = key}
        used == {log[n].Index : n \in {m \in mine :
                     /\ log[m].Kind = TxAddList
                     /\ ~\E d \in mine : log[d].Kind = TxDeleteList
                                          /\ log[d].Index = log[m].Index}}
    IN  IF used = {} THEN 0 ELSE CHOOSE x \in used : \A y \in used : y <= x

\* highest list index used for (uuid, key) in the log
MaxIndex(log, uuid, key) ==
    LET used == {log[n].Index : n \in {m \in DOMAIN log :
                     log[m].UUID = uuid /\ log[m].Key = key /\ log[m].Kind = TxAddList}}
    IN  IF used = {} THEN 0 ELSE CHOOSE a \in used : \A b \in used : b <= a

\* Store.Append at time now
StoreAppend(log, now, uuid, key, value) ==
    Append(log, Tx(now, TxAddList, uuid, key, value, MaxIndex(log, uuid, key) + 1))

\* Store.DeleteList at time now
StoreDeleteList(log, now, uuid, key, index) ==
    Append(log, Tx(now, TxDeleteList, uuid, key, <<>>, index))

----------------------------------------------------------------------------
(* Inputs of an scp exchange *)

FileContents == UNION {[1..n -> {"a", NUL, LF}] : n \in 0..MaxData}

\* 2^31 and 2^63 - 1 in decimal
TwoTo31 == <<"2", "1", "4", "7", "4", "8", "3", "6", "4", "8">>
MaxInt64 == <<"9", "2", "2", "3", "3", "7", "2", "0", "3", "6", "8", "5", "4", "7",
              "7", "5", "8", "0", "7">>

\* files of mode 0600 or 0644 whose bytes are enumerated, and a file of 2^31
\* bytes, whose bytes are not: size is the decimal of the number of bytes
SmallFiles ==
    {[Mode |-> m, Filename |-> f, Contents |-> c, size |-> FormatInt(Len(c), 10)] :
        m \in {384, 420}, f \in {<<"f">>, <<"d", "/", "f">>}, c \in FileContents}

HugeFile == [Mode |-> 420, Filename |-> <<"f">>, Contents |-> <<>>, size |-> TwoTo31]

Enumerated(file) == file.size = FormatInt(Len(file.Contents), 10)

NoFile == [Mode |-> 0, Filename |-> <<>>, Contents |-> <<>>, size |-> <<"0">>]

\* the zero value of scpFile
NoScpFile == [Mode |-> 0, Filename |-> <<>>, Contents |-> <<>>, Length |-> 0]

MsgNotFoundUpper == <<"s", "c", "p", ":", " ", "f", ":", " ", "N", "O", " ", "S", "U",
                      "C", "H", " ", "F", "I", "L", "E", " ", "O", "R", " ", "D", "I",
                      "R", "E", "C", "T", "O", "R", "Y", LF>>

MsgNoSuchFile == <<"s", "c", "p", ":", " ", "f", ":", " ", "n", "o", " ", "s", "u",
                   "c", "h", " ", "f", "i", "l", "e", LF>>

\* what a remote scp writes in place of a header when it has no file to send
ErrorLines ==
    {<<SOH>> \o MsgNotFound, <<SOH>> \o MsgNotFoundUpper, <<SOH>> \o MsgNoSuchFile,
     <<SOH>> \o MsgDenied, <<STX>> \o MsgNotFound, <<STX>> \o MsgDenied}

\* header lines that no sendFile writes; the length of the fifth is 2^63
OddHeaders ==
    {<<"D", "0", "7", "5", "5", " ", "0", " ", "d", LF>>,
     <<"C", "0", "6", "4", "4", " ", "1", LF>>,
     <<"C", "0", "6", "8", "4", " ", "1", " ", "f", LF>>,
     <<"C", "0", "6", "4", "4", " ", "x", " ", "f", LF>>,
     <<"C", "0", "6", "4", "4", " ">> \o SubSeq(MaxInt64, 1, 18) \o <<"8", " ", "f", LF>>,
     <<"C", "0", "6", "4", "4", " ", "-", "1", " ", "f", LF>>}

\* what a sink writes at each of its three steps
SinkReplies == {<<NUL>>, <<SOH>> \o MsgDenied, <<STX>> \o MsgDenied}

NoExchange ==
    [op |-> "none", file |-> NoFile, kind |-> "", line |-> <<>>, r |-> <<>>,
     cpc |-> "idle", rpc |-> "idle", out |-> <<>>, inp |-> <<>>, nread |-> 0,
     acks |-> <<>>, sent |-> <<>>, atHeader |-> 0, atData |-> 0,
     got |-> [err |-> NoError, file |-> NoScpFile], notFound |-> FALSE]

----------------------------------------------------------------------------
(* uiContext.sync *)

VARIABLES
    Log,        \* u.store.Log
    Snapshot,   \* u.store.Snapshot
    clock,      \* time.Now() of the next transaction the store writes
    push,       \* the push argument of sync
    pc,         \* where sync stands
    syncs,      \* result of collectSyncs
    i,          \* index of the pull loop, then of the push loop
    hosts,      \* uuid -> host line accepted during the loop
    logs,       \* logs accumulated by the pull loop
    asker,      \* the hostAsker of the connection in progress
    ct,         \* pulled ciphertext, then the encrypted local store
    tryPass,    \* pass of decryptBlob
    conflicts,  \* conflicts of mergeLogs
    ci,         \* index of the conflict being asked about
    result,     \* what sync returned: "none" while running, "nil", "err"
    obs,        \* history of the run (calls made, prompts issued)
    serverKeys, \* the host keys the servers reached by this run may present
    scp,        \* one scp exchange over a session: both ends and the stream
    repl,       \* the repl: its fields, the entries, its last iteration
    fn          \* a call of a function of the store and its result

vars == <<Log, Snapshot, clock, push, pc, syncs, i, hosts, logs, asker, ct,
          tryPass, conflicts, ci, result, obs, serverKeys, scp, repl, fn>>

syncVars == <<Log, Snapshot, clock, push, pc, syncs, i, hosts, logs, asker, ct,
              tryPass, conflicts, ci, result, obs, serverKeys>>

NoAsker == [line |-> <<>>, newHost |-> <<>>]

\* no repl is running, no function is called
NoRepl == [pc |-> "none"]
NoCall == [op |-> "none"]
NoBlob == [pass |-> "", intact |-> FALSE, pt |-> NilBytes]

\* sshConfig: the error it returns, "nil" if none
sshConfig(entry) ==
    IF EntryString(entry, KeyUser).v = <<>> THEN "missing user key"
    ELSE IF EntryString(entry, KeyHost).v = <<>> THEN "missing host key"
    ELSE IF EntryString(entry, KeyPort).v = <<>> THEN "missing port key"
    ELSE IF EntryString(entry, KeyPath).v = <<>> THEN "missing path key"
    ELSE "nil"

Address(entry) == JoinHostPort(EntryString(entry, KeyHost).v, EntryString(entry, KeyPort).v)

\* collectSyncs: the uuids it returns, as a set (it ranges over a map)
collectSyncs(snap) ==
    {uuid \in DOMAIN snap :
        /\ EntryString(snap[uuid], KeySync).v = S("true")
        /\ ~EntryString(snap[uuid], KeyName).err
        /\ ~EntryString(snap[uuid], KeyPath).err
        /\ ~EntryString(snap[uuid], KeySyncKind).err
        /\ EntryString(snap[uuid], KeySyncKind).v = S(syncSSH)}

\* a saveHosts that appends nothing
saveHostsNone(log, now, newHosts, order) == log

\* saveHosts: the log after one Append per new host, in the given order
RECURSIVE saveHosts(_, _, _, _)
saveHosts(log, now, newHosts, order) ==
    IF order = <<>> THEN log
    ELSE saveHosts(StoreAppend(log, now, Head(order), KeyKnownHosts, newHosts[Head(order)]),
                   now + 1, newHosts, Tail(order))

Zeros(n) == [k \in 1..n |-> 0]

\* the state of a run of sync before it starts
InitRun ==
    /\ clock = 10
    /\ push \in BOOLEAN
    /\ pc = "idle"
    /\ syncs = <<>>
    /\ i = 1
    /\ hosts = EmptyMap
    /\ logs = <<>>
    /\ asker = NoAsker
    /\ ct = NoBlob
    /\ tryPass = ""
    /\ conflicts = <<>>
    /\ ci = 1
    /\ result = "none"
    /\ obs = [log0 |-> <<>>, pulls |-> 0, pushes |-> <<>>, pushCt |-> <<>>,
              failed |-> 0, notFound |-> 0, fail |-> "", decrypts |-> 0, wrong |-> 0,
              passPrompts |-> 0, newLogCalls |-> 0, passAbort |-> FALSE,
              applied |-> <<>>, answered |-> 0, saves |-> 0, encrypts |-> 0,
              merged |-> FALSE, replaced |-> FALSE, mergeAbort |-> FALSE,
              lastErr |-> "nil", hostAppends |-> 0, pushFailed |-> 0,
              reply |-> NoError, presented |-> <<>>, callback |-> "",
              hostAnswer |-> "", accepted |-> EmptyMap]

Init ==
    \* n sync entries; the first one has a known host and may lack its user
    /\ \E n \in 0..MaxSyncs, nouser \in SUBSET {SyncUUIDs[1]} :
          LET uuids == {SyncUUIDs[k] : k \in 1..n}
              txs == LocalData
                     \cup UNION {ConfigTxs(u, IF u \in nouser THEN NoUserKeys ELSE FullKeys) : u \in uuids}
                     \cup {KnownTx(u) : u \in uuids \cap {SyncUUIDs[1]}}
          IN  /\ nouser \subseteq uuids
              /\ Log = SortTx(SeqOf(txs))
              /\ Snapshot = Materialize(SortTx(SeqOf(txs))).snap
    /\ serverKeys = HostKeys \ {RotatedKey}
    /\ scp = NoExchange
    /\ repl = NoRepl
    /\ fn = NoCall
    /\ InitRun

\* one sync entry whose known_hosts list is any list of known lines; the
\* server may present any key
InitHosts ==
    /\ \E lines \in UNION {[1..n -> KnownLines] : n \in 0..MaxKnown} :
          LET txs == LocalData \cup ConfigTxs(SyncUUIDs[1], FullKeys)
                     \cup KnownListTxs(SyncUUIDs[1], lines)
          IN  /\ Log = SortTx(SeqOf(txs))
              /\ Snapshot = Materialize(SortTx(SeqOf(txs))).snap
    /\ serverKeys = HostKeys
    /\ scp = NoExchange
    /\ repl = NoRepl
    /\ fn = NoCall
    /\ InitRun

\* sync up to the pull loop: UpdateSnapshot, collectSyncs
SyncStart ==
    /\ UNCHANGED <<serverKeys, scp, repl, fn>>
    /\ pc = "idle"
    /\ LET m == Materialize(Log)
       IN  /\ m.ok
           /\ Snapshot' = m.snap
           /\ \E order \in Perms(collectSyncs(m.snap)) :
                /\ syncs' = order
                /\ obs' = [obs EXCEPT !.log0 = Log,
                                      !.pushes = Zeros(Len(order)),
                                      !.pushCt = [k \in 1..Len(order) |-> <<>>]]
    /\ hosts' = EmptyMap
    /\ logs' = <<>>
    /\ i' = 1
    /\ pc' = "pull"
    /\ UNCHANGED <<Log, clock, push, asker, ct, tryPass, conflicts, ci, result>>

\* a pull loop that is left after its first iteration
PullsFinishedAfterFirst == i > Len(syncs) \/ i > 1

\* `for _, uuid := range syncs`: the loop is over
PullsFinished == i > Len(syncs)

\* a pull loop body that records the host line only of a pull that succeeded
PullFailedDropsHost(hostentry, kind, o) ==
    /\ hosts' = hosts
    /\ obs' = [o EXCEPT !.fail = kind,
                         !.notFound = IF kind = "notfound" THEN @ + 1 ELSE @,
                         !.failed = IF kind = "notfound" THEN @ ELSE @ + 1]
    /\ i' = i + 1
    /\ pc' = "pull"
    /\ asker' = NoAsker
    /\ UNCHANGED <<Log, Snapshot, clock, push, syncs, logs, ct, tryPass, conflicts, ci, result>>

\* a pull loop body that returns the error instead of `continue`
PullFailedReturns(hostentry, kind, o) ==
    /\ hosts' = IF hostentry # <<>> THEN PutKey(hosts, syncs[i], hostentry) ELSE hosts
    /\ obs' = [o EXCEPT !.fail = kind,
                         !.notFound = IF kind = "notfound" THEN @ + 1 ELSE @,
                         !.failed = IF kind = "notfound" THEN @ ELSE @ + 1]
    /\ pc' = "done"
    /\ result' = "err"
    /\ asker' = NoAsker
    /\ UNCHANGED <<Log, Snapshot, clock, push, syncs, i, logs, ct, tryPass, conflicts, ci>>

\* the pull loop body after pullBlob returned an error: record the host,
\* report, continue
PullFailed(hostentry, kind, o) ==
    /\ hosts' = IF hostentry # <<>> THEN PutKey(hosts, syncs[i], hostentry) ELSE hosts
    /\ obs' = [o EXCEPT !.fail = kind,
                         !.notFound = IF kind = "notfound" THEN @ + 1 ELSE @,
                         !.failed = IF kind = "notfound" THEN @ ELSE @ + 1]
    /\ i' = i + 1
    /\ pc' = "pull"
    /\ asker' = NoAsker
    /\ UNCHANGED <<Log, Snapshot, clock, push, syncs, logs, ct, tryPass, conflicts, ci, result>>

\* pullBlob -> sshPull: sshConfig, then ssh.Dial up to the host-key callback
PullBlob ==
    /\ UNCHANGED <<serverKeys, scp, repl, fn>>
    /\ pc = "pull"
    /\ ~PullsFinished
    /\ LET entry == Snapshot[syncs[i]]
           \* obs.fail .. obs.passAbort describe the pull in progress
           o == [obs EXCEPT !.pulls = @ + 1, !.fail = "", !.decrypts = 0, !.wrong = 0,
                            !.passPrompts = 0, !.newLogCalls = 0, !.passAbort = FALSE,
                            !.lastErr = "nil", !.reply = NoError,
                            !.presented = <<>>, !.callback = "", !.hostAnswer = ""]
       IN  IF sshConfig(entry) # "nil"
           THEN PullFailed(<<>>, "config", o)
           ELSE \/ PullFailed(<<>>, "transport", o)          \* dial fails
                \/ \E key \in serverKeys :
                     LET hostname == Address(entry)
                         line == HostLine(hostname, RemoteAddr, key.Type, key.Hash)
                         r == CheckKnown(EntryList(entry, KeyKnownHosts), hostname, key.Type, key.Hash)
                         oc == [o EXCEPT !.presented = line, !.callback = r]
                     IN  CASE r = "mitm" -> PullFailed(<<>>, "hostkey", oc)
                           [] r = "panic" ->
                                /\ pc' = "crashed"
                                /\ obs' = oc
                                /\ UNCHANGED <<Log, Snapshot, clock, push, syncs, i, hosts, logs,
                                               asker, ct, tryPass, conflicts, ci, result>>
                           [] OTHER ->
                                /\ pc' = IF r = "ok" THEN "recv" ELSE "pullhostprompt"
                                /\ asker' = [line |-> line, newHost |-> <<>>]
                                /\ obs' = oc
                                /\ UNCHANGED <<Log, Snapshot, clock, push, syncs, i, hosts, logs,
                                               ct, tryPass, conflicts, ci, result>>

\* hostAsker.callback at its prompt, during a pull
PullHostPrompt ==
    /\ UNCHANGED <<serverKeys, scp, repl, fn>>
    /\ pc = "pullhostprompt"
    /\ \E ans \in {Answer(l, "nil") : l \in {"y", "Y", "n", ""}}
                  \cup {Answer("", e) : e \in PromptErrors} :
         IF ans.err = "nil" /\ ans.line \in {"y", "Y"}
         THEN /\ asker' = [asker EXCEPT !.newHost = asker.line]
              /\ pc' = "recv"
              /\ obs' = [obs EXCEPT !.hostAnswer = ans.line]
              /\ UNCHANGED <<Log, Snapshot, clock, push, syncs, i, hosts, logs, ct,
                             tryPass, conflicts, ci, result>>
         ELSE PullFailed(<<>>, "hostkey",
                         [obs EXCEPT !.lastErr = ans.err, !.hostAnswer = ans.line])

\* scpsync.Recv after the handshake, back through sshPull and pullBlob into
\* the loop body, up to the call of decryptBlob
Recv ==
    /\ UNCHANGED <<serverKeys, scp, repl, fn>>
    /\ pc = "recv"
    /\ \E out \in {[err |-> OtherError("transport"), payload |-> NoBlob]}
                  \cup {[err |-> e, payload |-> NoBlob] : e \in Replies}
                  \cup {[err |-> NoError, payload |-> b] : b \in Blobs} :
         IF out.err.type # "nil"
         THEN PullFailed(asker.newHost,
                         IF IsNotFoundErr(out.err) THEN "notfound" ELSE "transport",
                         [obs EXCEPT !.reply = out.err])
         ELSE /\ hosts' = IF asker.newHost # <<>>
                          THEN PutKey(hosts, syncs[i], asker.newHost) ELSE hosts
              /\ ct' = out.payload
              /\ tryPass' = LocalPass
              /\ pc' = "decrypt"
              /\ asker' = NoAsker
              /\ UNCHANGED <<Log, Snapshot, clock, push, syncs, i, logs, conflicts,
                             ci, result, obs>>

\* the loop body from the return of decryptBlob: txformat.NewLog, append
AfterDecrypt(pt, kind, o) ==
    LET parsed == NewLog(pt)
        o2 == [o EXCEPT !.newLogCalls = @ + 1]
    IN  IF parsed.err # "nil"
        THEN PullFailed(<<>>, kind, o2)
        ELSE /\ logs' = Append(logs, parsed.log)
             /\ obs' = o2
             /\ i' = i + 1
             /\ pc' = "pull"
             /\ UNCHANGED <<Log, Snapshot, clock, push, syncs, hosts, asker, ct,
                            tryPass, conflicts, ci, result>>

\* a decryptBlob that prompts after any error of crypt.Decrypt
AfterDecryptErrAlwaysPrompts(err) ==
    IF err = "nil" THEN "return" ELSE "prompt"

\* decryptBlob after crypt.Decrypt returned err: "return" the plaintext,
\* "prompt" for another passphrase, or "fail" with the error
AfterDecryptErr(err) ==
    IF err = "nil" THEN "return"
    ELSE IF err # "ErrWrongPassphrase" THEN "fail"
    ELSE "prompt"

\* decryptBlob: one crypt.Decrypt with the current pass
DecryptBlob ==
    /\ UNCHANGED <<serverKeys, scp, repl, fn>>
    /\ pc = "decrypt"
    /\ LET r == Decrypt(tryPass, ct)
           o == [obs EXCEPT !.decrypts = @ + 1,
                            !.wrong = IF r.err = "ErrWrongPassphrase" THEN @ + 1 ELSE @]
           todo == AfterDecryptErr(r.err)
       IN  CASE todo = "return" -> AfterDecrypt(r.pt, "parse", o)
             [] todo = "prompt" ->
                  /\ pc' = "passprompt"
                  /\ obs' = o
                  /\ UNCHANGED <<Log, Snapshot, clock, push, syncs, i, hosts, logs,
                                 asker, ct, tryPass, conflicts, ci, result>>
             [] OTHER -> PullFailed(<<>>, "decrypt", o)

\* decryptBlob at its passphrase prompt
PassPrompt ==
    /\ UNCHANGED <<serverKeys, scp, repl, fn>>
    /\ pc = "passprompt"
    /\ \E ans \in {Answer(l, "nil") : l \in {"", "q", "r"}}
                  \cup {Answer("", e) : e \in PromptErrors} :
         LET o == [obs EXCEPT !.passPrompts = @ + 1, !.lastErr = ans.err]
         IN  IF ans.err # "nil" \/ ans.line = ""
             THEN \* return nil, nil
                  AfterDecrypt(NilBytes, "passabort", [o EXCEPT !.passAbort = TRUE])
             ELSE /\ obs.passPrompts < MaxPrompts
                  /\ tryPass' = ans.line
                  /\ pc' = "decrypt"
                  /\ obs' = o
                  /\ UNCHANGED <<Log, Snapshot, clock, push, syncs, i, hosts, logs,
                                 asker, ct, conflicts, ci, result>>

\* a sync that reports the failed rebuild without os.Exit: saveHosts appends
\* the accepted hosts and returns the error of UpdateSnapshot
SnapshotPoisonedGoesOn(out, o) ==
    \E order \in Perms(DOMAIN hosts) :
        /\ Log' = saveHosts(out, clock, hosts, order)
        /\ Snapshot' = EmptyMap
        /\ clock' = clock + Len(order)
        /\ pc' = "done"
        /\ result' = "err"
        /\ obs' = [o EXCEPT !.replaced = TRUE, !.hostAppends = @ + Len(order)]
        /\ UNCHANGED <<hosts, i, ct>>

\* sync when UpdateSnapshot fails on the merged log: os.Exit(1)
SnapshotPoisoned(out, o) ==
    /\ Log' = out
    /\ Snapshot' = EmptyMap
    /\ pc' = "exited"
    /\ obs' = [o EXCEPT !.replaced = TRUE]
    /\ UNCHANGED <<clock, hosts, i, ct, result>>

\* sync from the return of mergeLogs: replace the log, rebuild, saveHosts,
\* and when pushing Save and Encrypt
AfterMerge(out, o) ==
    LET m == Materialize(out)
    IN  IF ~m.ok
        THEN SnapshotPoisoned(out, o)
        ELSE \E order \in Perms(DOMAIN hosts) :
               LET saved == saveHosts(out, clock, hosts, order)
                   o2 == [o EXCEPT !.replaced = TRUE, !.hostAppends = @ + Len(order),
                                   !.accepted = hosts]
               IN  /\ Log' = saved
                   /\ Snapshot' = Materialize(saved).snap
                   /\ clock' = clock + Len(order)
                   /\ IF ~push
                      THEN /\ pc' = "done"
                           /\ result' = "nil"
                           /\ obs' = o2
                           /\ UNCHANGED <<hosts, i, ct>>
                      ELSE /\ ct' = Encrypt(LocalPass, Save(saved))
                           /\ obs' = [o2 EXCEPT !.saves = @ + 1, !.encrypts = @ + 1]
                           /\ hosts' = EmptyMap
                           /\ i' = 1
                           /\ pc' = "push"
                           /\ UNCHANGED result

\* a mergeLogs that returns its nil result when there is nothing to merge
NothingToMergeNil(in) == <<>>

\* mergeLogs when toMerge is empty: return in, nil
NothingToMerge(in) == in

\* mergeLogs up to its first prompt or its return.  The loop over toMerge
\* leaves at its first iteration: with `break` when Merge reports no
\* conflict, into the prompt loop otherwise.
mergeLogs ==
    /\ UNCHANGED <<serverKeys, scp, repl, fn>>
    /\ pc = "pull"
    /\ PullsFinished
    /\ LET o == [obs EXCEPT !.merged = TRUE, !.fail = "", !.decrypts = 0, !.wrong = 0,
                            !.passPrompts = 0, !.newLogCalls = 0, !.passAbort = FALSE,
                            !.lastErr = "nil", !.reply = NoError,
                            !.presented = <<>>, !.callback = "", !.hostAnswer = ""]
       IN  IF Len(logs) = 0
           THEN AfterMerge(NothingToMerge(Log), o) /\ UNCHANGED <<conflicts, ci>>
           ELSE LET m == Merge(Log, logs[1], <<>>)
                IN  IF Len(m.conflicts) = 0
                    THEN AfterMerge(m.log, o) /\ UNCHANGED <<conflicts, ci>>
                    ELSE /\ conflicts' = m.conflicts
                         /\ ci' = 1
                         /\ pc' = "conflict"
                         /\ obs' = [o EXCEPT !.applied = Zeros(Len(m.conflicts))]
                         /\ UNCHANGED <<Log, Snapshot, clock, hosts, i, ct, result>>
    /\ UNCHANGED <<push, syncs, logs, asker, tryPass>>

\* a sync that reports the error of mergeLogs and goes on without `return
\* nil`: the nil log that mergeLogs returned replaces the store's log
MergeFailedNoReturn(o) ==
    /\ pc' = "done"
    /\ result' = "nil"
    /\ obs' = o
    /\ Log' = <<>>
    /\ Snapshot' = EmptyMap

\* sync when mergeLogs returned an error: report it, return nil
MergeFailed(o) ==
    /\ pc' = "done"
    /\ result' = "nil"
    /\ obs' = o
    /\ UNCHANGED <<Log, Snapshot>>

\* the prompt loop of mergeLogs for conflict ci
ConflictPrompt ==
    /\ UNCHANGED <<serverKeys, scp, repl, fn>>
    /\ pc = "conflict"
    /\ \E ans \in {Answer(l, "nil") : l \in {"R", "r", "D", "d", "x"}}
                  \cup {Answer("", e) : e \in PromptErrors} :
         IF ans.err # "nil"
         THEN \* return nil, err
              /\ MergeFailed([obs EXCEPT !.mergeAbort = TRUE, !.lastErr = ans.err])
              /\ UNCHANGED conflicts
         ELSE /\ obs.answered < MaxPrompts
              /\ conflicts' =
                   CASE ans.line \in {"R", "r"} -> [conflicts EXCEPT ![ci] = Restore(@)]
                     [] ans.line \in {"D", "d"} -> [conflicts EXCEPT ![ci] = Delete(@)]
                     [] OTHER -> conflicts
              /\ obs' = [obs EXCEPT !.answered = @ + 1,
                                    !.applied = IF ans.line \in {"R", "r", "D", "d"}
                                                THEN Inc(@, ci) ELSE @]
              /\ UNCHANGED <<pc, result, Log, Snapshot>>
    /\ UNCHANGED <<clock, push, syncs, i, hosts, logs, asker, ct, tryPass, ci>>

\* a push loop body that returns the error of pushBlob
PushReturnedAborts(hostentry, failed, o) ==
    /\ hosts' = IF hostentry # <<>> THEN PutKey(hosts, syncs[i], hostentry) ELSE hosts
    /\ obs' = [o EXCEPT !.pushFailed = IF failed THEN @ + 1 ELSE @]
    /\ i' = i + 1
    /\ pc' = IF failed THEN "done" ELSE "push"
    /\ result' = IF failed THEN "err" ELSE result
    /\ asker' = NoAsker
    /\ UNCHANGED <<Log, Snapshot, clock, push, syncs, logs, ct, tryPass, conflicts, ci>>

\* the push loop body after pushBlob returned: report an error, record the host
PushReturned(hostentry, failed, o) ==
    /\ hosts' = IF hostentry # <<>> THEN PutKey(hosts, syncs[i], hostentry) ELSE hosts
    /\ obs' = [o EXCEPT !.pushFailed = IF failed THEN @ + 1 ELSE @]
    /\ i' = i + 1
    /\ pc' = "push"
    /\ asker' = NoAsker
    /\ UNCHANGED <<Log, Snapshot, clock, push, syncs, logs, ct, tryPass, conflicts, ci, result>>

\* pushBlob -> sshPush: sshConfig, then ssh.Dial up to the host-key callback
PushBlob ==
    /\ UNCHANGED <<serverKeys, scp, repl, fn>>
    /\ pc = "push"
    /\ i <= Len(syncs)
    /\ LET o == [obs EXCEPT !.pushes = Inc(@, i), !.pushCt[i] = <<ct>>, !.lastErr = "nil",
                            !.presented = <<>>, !.callback = "", !.hostAnswer = ""]
       IN  IF syncs[i] \notin DOMAIN Snapshot
           THEN \* entry[txblob.KeySyncKind].(string) on a missing entry
                /\ pc' = "crashed"
                /\ obs' = o
                /\ UNCHANGED <<Log, Snapshot, clock, push, syncs, i, hosts, logs,
                               asker, ct, tryPass, conflicts, ci, result>>
           ELSE LET entry == Snapshot[syncs[i]]
                IN  IF sshConfig(entry) # "nil"
                    THEN PushReturned(<<>>, TRUE, o)
                    ELSE \/ PushReturned(<<>>, TRUE, o)          \* dial fails
                         \/ \E key \in serverKeys :
                              LET hostname == Address(entry)
                                  line == HostLine(hostname, RemoteAddr, key.Type, key.Hash)
                                  r == CheckKnown(EntryList(entry, KeyKnownHosts), hostname,
                                                  key.Type, key.Hash)
                                  oc == [o EXCEPT !.presented = line, !.callback = r]
                              IN  CASE r = "mitm" -> PushReturned(<<>>, TRUE, oc)
                                    [] r = "panic" ->
                                         /\ pc' = "crashed"
                                         /\ obs' = oc
                                         /\ UNCHANGED <<Log, Snapshot, clock, push, syncs, i,
                                                        hosts, logs, asker, ct, tryPass,
                                                        conflicts, ci, result>>
                                    [] OTHER ->
                                         /\ pc' = IF r = "ok" THEN "send" ELSE "pushhostprompt"
                                         /\ asker' = [line |-> line, newHost |-> <<>>]
                                         /\ obs' = oc
                                         /\ UNCHANGED <<Log, Snapshot, clock, push, syncs, i,
                                                        hosts, logs, ct, tryPass, conflicts,
                                                        ci, result>>

\* hostAsker.callback at its prompt, during a push
PushHostPrompt ==
    /\ UNCHANGED <<serverKeys, scp, repl, fn>>
    /\ pc = "pushhostprompt"
    /\ \E ans \in {Answer(l, "nil") : l \in {"y", "Y", "n", ""}}
                  \cup {Answer("", e) : e \in PromptErrors} :
         IF ans.err = "nil" /\ ans.line \in {"y", "Y"}
         THEN /\ asker' = [asker EXCEPT !.newHost = asker.line]
              /\ pc' = "send"
              /\ obs' = [obs EXCEPT !.hostAnswer = ans.line]
              /\ UNCHANGED <<Log, Snapshot, clock, push, syncs, i, hosts, logs, ct,
                             tryPass, conflicts, ci, result>>
         ELSE PushReturned(<<>>, TRUE,
                           [obs EXCEPT !.lastErr = ans.err, !.hostAnswer = ans.line])

\* scpsync.Send after the handshake, back through sshPush and pushBlob
Send ==
    /\ UNCHANGED <<serverKeys, scp, repl, fn>>
    /\ pc = "send"
    /\ \E ok \in BOOLEAN :
         \* sshPush returns "" for the host when Send fails
         PushReturned(IF ok THEN asker.newHost ELSE <<>>, ~ok, obs)

\* sync after the push loop: saveHosts, return nil
PushEnd ==
    /\ UNCHANGED <<serverKeys, scp, repl, fn>>
    /\ pc = "push"
    /\ i > Len(syncs)
    /\ \E order \in Perms(DOMAIN hosts) :
         LET saved == saveHosts(Log, clock, hosts, order)
         IN  /\ Log' = saved
             /\ Snapshot' = Materialize(saved).snap
             /\ clock' = clock + Len(order)
             /\ obs' = [obs EXCEPT !.hostAppends = @ + Len(order), !.lastErr = "nil",
                                   !.presented = <<>>, !.callback = "", !.hostAnswer = ""]
    /\ pc' = "done"
    /\ result' = "nil"
    /\ UNCHANGED <<push, syncs, i, hosts, logs, asker, ct, tryPass, conflicts, ci>>

Next ==
    \/ SyncStart
    \/ PullBlob
    \/ PullHostPrompt
    \/ Recv
    \/ DecryptBlob
    \/ PassPrompt
    \/ mergeLogs
    \/ ConflictPrompt
    \/ PushBlob
    \/ PushHostPrompt
    \/ Send
    \/ PushEnd

Spec == Init /\ [][Next]_vars

SpecHosts == InitHosts /\ [][Next]_vars

TypeOK ==
    /\ pc \in {"idle", "pull", "pullhostprompt", "recv", "decrypt", "passprompt",
               "conflict", "push", "pushhostprompt", "send", "done", "exited", "crashed"}
    /\ result \in {"none", "nil", "err"}
    /\ i \in 1..(Len(syncs) + 1)

----------------------------------------------------------------------------
(* scpsync: one exchange.  The client end is readFile (source mode) or
   sendFile (sink mode); the remote end is the scp process of the session.
   out is what the client has written and the remote has not yet read, inp
   what the remote has written and the client has not yet read.  A Read
   returns what the channel holds. *)

Write0(x) == [x EXCEPT !.out = Append(x.out, NUL), !.acks = Append(x.acks, x.nread)]

Returned(x, err, file) ==
    [x EXCEPT !.cpc = "returned", !.got = [err |-> err, file |-> file]]

RemoteWrites(x, kind, bytes) ==
    [x EXCEPT !.inp = x.inp \o bytes,
              !.sent = Append(x.sent, [kind |-> kind, bytes |-> bytes])]

\* the exchanges: a source that has a file, a source whose byte after the
\* data is not 0, a source that answers with an error line or with another
\* header line, and a sink with its three replies
InitScp ==
    /\ Log = SortTx(SeqOf(LocalData))
    /\ Snapshot = Materialize(SortTx(SeqOf(LocalData))).snap
    /\ serverKeys = {}
    /\ repl = NoRepl
    /\ fn = NoCall
    /\ InitRun
    /\ push = FALSE
    /\ \/ \E f \in SmallFiles \cup {HugeFile} :
             scp = [NoExchange EXCEPT !.op = "recv", !.kind = "file", !.file = f,
                                      !.cpc = "start", !.rpc = "start"]
       \/ \E f \in SmallFiles :
             scp = [NoExchange EXCEPT !.op = "recv", !.kind = "badterm", !.file = f,
                                      !.cpc = "start", !.rpc = "start"]
       \/ \E l \in ErrorLines :
             scp = [NoExchange EXCEPT !.op = "recv", !.kind = "reply", !.line = l,
                                      !.cpc = "start", !.rpc = "start"]
       \/ \E l \in OddHeaders :
             scp = [NoExchange EXCEPT !.op = "recv", !.kind = "header", !.line = l,
                                      !.cpc = "start", !.rpc = "start"]
       \/ \E f \in SmallFiles, r \in [1..3 -> SinkReplies] :
             scp = [NoExchange EXCEPT !.op = "send", !.kind = "sink", !.file = f,
                                      !.r = r, !.cpc = "start", !.rpc = "start"]

\* readFile up to its first read: the first 0x00
RecvStart ==
    /\ scp.op = "recv"
    /\ scp.cpc = "start"
    /\ scp' = [Write0(scp) EXCEPT !.cpc = "header"]
    /\ UNCHANGED <<syncVars, repl, fn>>

\* the remote scp -f after the first 0x00: the header, or an error line
SourceHeader ==
    /\ scp.op = "recv"
    /\ scp.rpc = "start"
    /\ scp.out # <<>> /\ Head(scp.out) = NUL
    /\ LET x == [scp EXCEPT !.out = Tail(scp.out)]
       IN  CASE scp.kind \in {"file", "badterm"} ->
                  scp' = [RemoteWrites(x, "header",
                              FormatHeader(scp.file.Mode, scp.file.size, scp.file.Filename))
                          EXCEPT !.rpc = "header"]
             [] scp.kind = "header" ->
                  scp' = [RemoteWrites(x, "header", scp.line) EXCEPT !.rpc = "header"]
             [] scp.kind = "reply" ->
                  scp' = [RemoteWrites(x, "reply", scp.line) EXCEPT !.rpc = "exited"]
    /\ UNCHANGED <<syncVars, repl, fn>>

\* readFile from the header line to the read of the data
RecvHeader ==
    /\ scp.op = "recv"
    /\ scp.cpc = "header"
    /\ HasLine(scp.inp)
    /\ LET rd == ReadString(scp.inp)
           x == [scp EXCEPT !.inp = rd.rest, !.nread = scp.nread + Len(rd.line)]
           h == ParseHeader(rd.line)
       IN  IF h.err # NoError
           THEN scp' = Returned(x, h.err, NoScpFile)
           ELSE scp' = [Write0(x) EXCEPT !.cpc = "data",
                           !.got = [err |-> NoError,
                                    file |-> [Mode |-> h.file.Mode,
                                              Filename |-> h.file.Filename,
                                              Contents |-> <<>>,
                                              Length |-> h.file.Length]]]
    /\ UNCHANGED <<syncVars, repl, fn>>

\* the remote scp -f after the second 0x00: the bytes of the file and the
\* byte that ends them
SourceData ==
    /\ scp.op = "recv"
    /\ scp.rpc = "header"
    /\ scp.out # <<>> /\ Head(scp.out) = NUL
    /\ Enumerated(scp.file)
    /\ LET x == [scp EXCEPT !.out = Tail(scp.out)]
           last == IF scp.kind = "badterm" THEN "a" ELSE NUL
       IN  scp' = [RemoteWrites(x, "data", Append(scp.file.Contents, last))
                   EXCEPT !.rpc = "data"]
    /\ UNCHANGED <<syncVars, repl, fn>>

\* readFile from the read of the data to its return
RecvData ==
    /\ scp.op = "recv"
    /\ scp.cpc = "data"
    /\ LET length == scp.got.file.Length
       IN  IF length < 0
           THEN \* make or the index of the last byte panics
                scp' = [scp EXCEPT !.cpc = "panic"]
           ELSE /\ Len(scp.inp) >= length + 1
                /\ LET contents == SubSeq(scp.inp, 1, length + 1)
                       x == [scp EXCEPT !.inp = SubSeq(scp.inp, length + 2, Len(scp.inp)),
                                        !.nread = scp.nread + length + 1]
                   IN  IF contents[length + 1] # NUL
                       THEN scp' = Returned(x,
                                OtherError("protocol error, expect 0 byte after file data"),
                                NoScpFile)
                       ELSE scp' = Returned(Write0(x), NoError,
                                [Mode |-> scp.got.file.Mode,
                                 Filename |-> scp.got.file.Filename,
                                 Contents |-> SubSeq(contents, 1, length),
                                 Length |-> length])
    /\ UNCHANGED <<syncVars, repl, fn>>

\* the remote scp -f after the third 0x00
SourceExit ==
    /\ scp.op = "recv"
    /\ scp.rpc = "data"
    /\ scp.out # <<>> /\ Head(scp.out) = NUL
    /\ scp' = [scp EXCEPT !.out = Tail(scp.out), !.rpc = "exited"]
    /\ UNCHANGED <<syncVars, repl, fn>>

\* pullBlob classifies the error of Recv
Classify ==
    /\ scp.op = "recv"
    /\ scp.cpc = "returned"
    /\ scp.got.err # NoError
    /\ scp' = [scp EXCEPT !.cpc = "classified", !.notFound = IsNotFoundErr(scp.got.err)]
    /\ UNCHANGED <<syncVars, repl, fn>>

\* the number of replies of the sink that the client has read entirely
RECURSIVE RepliesRead(_, _)
RepliesRead(sent, nread) ==
    IF sent = <<>> \/ Len(Head(sent).bytes) > nread THEN 0
    ELSE 1 + RepliesRead(Tail(sent), nread - Len(Head(sent).bytes))

\* sendFile up to readResponse: header, data and 0x00
SendWrite ==
    /\ scp.op = "send"
    /\ scp.cpc = "start"
    /\ scp' = [scp EXCEPT
                 !.out = scp.out
                         \o FormatHeader(scp.file.Mode, FormatInt(Len(scp.file.Contents), 10),
                                         scp.file.Filename)
                         \o scp.file.Contents \o <<NUL>>,
                 !.atHeader = RepliesRead(scp.sent, scp.nread),
                 !.atData = RepliesRead(scp.sent, scp.nread),
                 !.cpc = "response"]
    /\ UNCHANGED <<syncVars, repl, fn>>

\* readResponse, and the return of sendFile
SendResponse ==
    /\ scp.op = "send"
    /\ scp.cpc = "response"
    /\ scp.inp # <<>>
    /\ LET nRead == IF Len(scp.inp) < 256 THEN Len(scp.inp) ELSE 256
           response == SubSeq(scp.inp, 1, nRead)
           x == [scp EXCEPT !.inp = SubSeq(scp.inp, nRead + 1, Len(scp.inp)),
                            !.nread = scp.nread + nRead]
       IN  CASE response[1] = NUL -> scp' = Returned(x, NoError, NoScpFile)
             [] response[1] \in {SOH, STX} ->
                  scp' = Returned(x,
                            Err(ByteCode(response[1]),
                                IF nRead > 2 THEN SubSeq(response, 2, nRead) ELSE <<>>),
                            NoScpFile)
             [] OTHER -> scp' = Returned(x, OtherError("invalid response"), NoScpFile)
    /\ UNCHANGED <<syncVars, repl, fn>>

\* the remote scp -t goes on after 0x00 and after a warning, and ends after
\* a fatal error
SinkGoesOn(reply, rpc) == IF reply[1] = STX THEN "exited" ELSE rpc

\* the remote scp -t when it starts: its first reply
SinkStart ==
    /\ scp.op = "send"
    /\ scp.rpc = "start"
    /\ scp' = [RemoteWrites(scp, "reply", scp.r[1])
               EXCEPT !.rpc = SinkGoesOn(scp.r[1], "header")]
    /\ UNCHANGED <<syncVars, repl, fn>>

\* the remote scp -t reads the header line and replies
SinkHeader ==
    /\ scp.op = "send"
    /\ scp.rpc = "header"
    /\ HasLine(scp.out)
    /\ scp' = [RemoteWrites([scp EXCEPT !.out = ReadString(scp.out).rest], "reply", scp.r[2])
               EXCEPT !.rpc = SinkGoesOn(scp.r[2], "data")]
    /\ UNCHANGED <<syncVars, repl, fn>>

\* the remote scp -t reads the data and the 0x00 and replies
SinkData ==
    /\ scp.op = "send"
    /\ scp.rpc = "data"
    /\ Len(scp.out) >= Len(scp.file.Contents) + 1
    /\ scp' = [RemoteWrites([scp EXCEPT !.out = SubSeq(scp.out, Len(scp.file.Contents) + 2,
                                                      Len(scp.out))],
                            "reply", scp.r[3])
               EXCEPT !.rpc = "exited"]
    /\ UNCHANGED <<syncVars, repl, fn>>

NextScp ==
    \/ RecvStart
    \/ SourceHeader
    \/ RecvHeader
    \/ SourceData
    \/ RecvData
    \/ SourceExit
    \/ Classify
    \/ SendWrite
    \/ SendResponse
    \/ SinkStart
    \/ SinkHeader
    \/ SinkData

SpecScp == InitScp /\ [][NextScp]_vars

----------------------------------------------------------------------------
(* repl.run.  A line is the sequence of its fields; the entries of the
   store are names; a handler is what it returns. *)

EntryNames == {"a", "b"}

\* the fields that follow the command
ArgLists ==
    {<<>>, <<"a">>, <<"b">>, <<"zz">>, <<"1">>, <<"pass">>, <<"a", "1">>, <<"a", "k">>,
     <<"a", "x">>, <<"a", "pass">>, <<"k", "v">>, <<"a", "b">>, <<"a", "k", "v">>}

Commands ==
    {"passwd", "add", "mv", "rm", "ls", "cd", "cp", "get", "totp", "user", "pass",
     "email", "set", "open", "note", "rmnote", "label", "rmlabel", "labels", "show",
     "help", "frob"}

HandlerErrors == {"nil", "io.EOF", "ErrStore"}

\* strconv.Atoi succeeds
IsNumber(word) == word \in {"0", "1", "2"}

\* promptColor.Sprintf(normalPrompt, shortFilename) and
\* promptColor.Sprintf(dirPrompt, shortFilename, ctxEntry)
NormalPrompt == <<"(", "file", ")", "> ">>
DirPrompt(entry) == <<"(", "file", "):", entry, "> ">>

\* uiContext.singleName: the entry a search finds, "" when it finds none
singleName(entries, search) == IF search \in entries THEN search ELSE ""

\* what the switch of run does with a command other than cd and rm:
\* "syntax" (message, continue), "number" (message, continue), "sethelp"
\* (message, break), "help", "unknown", or "call" of a handler for the entry
\* target; how tells what becomes of the handler's error
Dispatch(cmd, splits, name) ==
    LET n == Len(splits)
        out(what, target, how) == [what |-> what, target |-> target, how |-> how]
        named == IF name = "" THEN splits[1] ELSE name
        rest == IF name = "" THEN Tail(splits) ELSE splits
    IN  CASE cmd = "passwd" -> out("call", "", "return")
          [] cmd = "add" -> IF n < 1 THEN out("syntax", "", "") ELSE out("call", splits[1], "return")
          [] cmd = "mv" -> IF n < 2 THEN out("syntax", "", "") ELSE out("call", splits[1], "return")
          [] cmd = "ls" -> out("call", "", "return")
          [] cmd \in {"cp", "get"} ->
               IF n < 1 \/ (n < 2 /\ name = "") THEN out("syntax", "", "")
               ELSE IF Len(rest) > 1 /\ ~IsNumber(rest[2]) THEN out("number", "", "")
               ELSE out("call", named, "return")
          [] cmd \in {"totp", KeyUser, KeyPass, "email"} ->
               IF n < 1 /\ name = "" THEN out("syntax", "", "")
               ELSE out("call", named, "return")
          [] cmd = "set" ->
               CASE n = 0 -> out("sethelp", "", "")
                 [] n = 1 -> IF name # "" /\ splits[1] = "pass"
                             THEN out("call", name, "passset") ELSE out("sethelp", "", "")
                 [] n = 2 -> IF name = "" /\ splits[2] = "pass"
                             THEN out("call", splits[1], "passset")
                             ELSE IF name # "" THEN out("call", name, "return")
                             ELSE out("sethelp", "", "")
                 [] OTHER -> out("call", named, "return")
          [] cmd \in {"open", "note", "label", "show"} ->
               IF name = "" /\ n = 0 THEN out("syntax", "", "")
               ELSE out("call", named, "return")
          [] cmd = "rmnote" ->
               IF n < 1 \/ (name = "" /\ n < 2) THEN out("syntax", "", "")
               ELSE IF ~IsNumber(rest[1]) THEN out("number", "", "")
               \* number, err := strconv.Atoi(...) declares the err that
               \* deleteNote is assigned to
               ELSE out("call", named, "shadowed")
          [] cmd = "rmlabel" ->
               IF n < 1 \/ (name = "" /\ n < 2) THEN out("syntax", "", "")
               ELSE out("call", named, "return")
          [] cmd = "labels" -> IF n = 0 THEN out("syntax", "", "") ELSE out("call", "", "return")
          [] cmd = "help" -> out("help", "", "")
          [] OTHER -> out("unknown", "", "")

\* the err that run tests after the switch, given what the handler returned
SeenError(how, herr) ==
    CASE how = "shadowed" -> "nil"
      [] how = "passset" -> IF herr = "io.EOF" THEN "nil" ELSE herr
      [] OTHER -> herr

NoIteration ==
    [cmd |-> "", splits |-> <<>>, perr |-> "nil", what |-> "", target |-> "",
     herr |-> "nil", before |-> NormalPrompt]

InitRepl ==
    /\ Log = SortTx(SeqOf(LocalData))
    /\ Snapshot = Materialize(SortTx(SeqOf(LocalData))).snap
    /\ serverKeys = {}
    /\ scp = NoExchange
    /\ fn = NoCall
    /\ InitRun
    /\ push = FALSE
    /\ repl = [pc |-> "loop", ret |-> "none", ctxEntry |-> "", prompt |-> NormalPrompt,
               entries |-> EntryNames, last |-> NoIteration]

\* the iteration begins: what the last one did is forgotten
Iteration(cmd, splits) ==
    [NoIteration EXCEPT !.cmd = cmd, !.splits = splits, !.before = repl.prompt]

\* term.Line returns an error
ReplLineError ==
    /\ repl.pc = "loop"
    /\ \E e \in PromptErrors \cup {"ErrTerm"} :
          repl' = [repl EXCEPT !.pc = "returned",
                               !.ret = IF e = "ErrEnd" THEN "nil" ELSE e,
                               !.last = [NoIteration EXCEPT !.perr = e, !.before = repl.prompt]]
    /\ UNCHANGED <<syncVars, scp, fn>>

\* a line without fields
ReplBlank ==
    /\ repl.pc = "loop"
    /\ repl' = [repl EXCEPT !.last = [Iteration("", <<>>) EXCEPT !.what = "blank"]]
    /\ UNCHANGED <<syncVars, scp, fn>>

\* case "cd"
ReplCd ==
    /\ repl.pc = "loop"
    /\ \E splits \in ArgLists :
          LET it == Iteration("cd", splits)
              name == singleName(repl.entries, splits[1])
          IN  CASE Len(splits) = 0 ->
                     repl' = [repl EXCEPT !.prompt = NormalPrompt,
                                          !.last = [it EXCEPT !.what = "cd"]]
                [] Len(splits) = 1 ->
                     IF name = ""
                     THEN repl' = [repl EXCEPT !.last = [it EXCEPT !.what = "notfound"]]
                     ELSE repl' = [repl EXCEPT !.ctxEntry = name, !.prompt = DirPrompt(name),
                                               !.last = [it EXCEPT !.what = "cd"]]
                [] OTHER -> repl' = [repl EXCEPT !.last = [it EXCEPT !.what = "syntax"]]
    /\ UNCHANGED <<syncVars, scp, fn>>

\* case "rm"
ReplRm ==
    /\ repl.pc = "loop"
    /\ \E splits \in ArgLists, herr \in HandlerErrors :
          LET it == Iteration("rm", splits)
              name == splits[1]
          IN  IF Len(splits) < 1
              THEN repl' = [repl EXCEPT !.last = [it EXCEPT !.what = "syntax"]]
              ELSE LET called == [it EXCEPT !.what = "call", !.target = name, !.herr = herr]
                   IN  IF herr # "nil"
                       THEN repl' = [repl EXCEPT !.pc = "returned", !.ret = herr,
                                                 !.last = called]
                       ELSE repl' = [repl EXCEPT
                                       !.entries = @ \ {name},
                                       !.ctxEntry = IF @ = name THEN "" ELSE @,
                                       !.prompt = IF repl.ctxEntry = name
                                                  THEN NormalPrompt ELSE @,
                                       !.last = called]
    /\ UNCHANGED <<syncVars, scp, fn>>

\* every other command
ReplCommand ==
    /\ repl.pc = "loop"
    /\ \E cmd \in Commands \ {"cd", "rm"}, splits \in ArgLists, herr \in HandlerErrors :
          LET d == Dispatch(cmd, splits, repl.ctxEntry)
              it == [Iteration(cmd, splits) EXCEPT !.what = d.what, !.target = d.target]
          IN  IF d.what # "call"
              THEN herr = "nil" /\ repl' = [repl EXCEPT !.last = it]
              ELSE IF SeenError(d.how, herr) # "nil"
              THEN repl' = [repl EXCEPT !.pc = "returned", !.ret = SeenError(d.how, herr),
                                        !.last = [it EXCEPT !.herr = herr]]
              ELSE repl' = [repl EXCEPT !.last = [it EXCEPT !.herr = herr]]
    /\ UNCHANGED <<syncVars, scp, fn>>

NextRepl ==
    \/ ReplLineError
    \/ ReplBlank
    \/ ReplCd
    \/ ReplRm
    \/ ReplCommand

SpecRepl == InitRepl /\ [][NextRepl]_vars

----------------------------------------------------------------------------
(* collectSyncs over sync URLs *)

KeyURL == "sync_url"
syncSCP == <<"s", "c", "p">>

\* map[string]string lookup: the empty string when the key is missing
EntryGet(entry, key) == IF key \in DOMAIN entry THEN entry[key].s ELSE <<>>

IsLetter(ch) == \E n \in DOMAIN LowerCase : ch = LowerCase[n] \/ ch = UpperCase[n]

\* url.getScheme: [err, scheme, rest]
RECURSIVE getScheme(_, _)
getScheme(rawurl, n) ==
    IF n > Len(rawurl) THEN [err |-> FALSE, scheme |-> <<>>, rest |-> rawurl]
    ELSE LET c == rawurl[n]
         IN  CASE IsLetter(c) -> getScheme(rawurl, n + 1)
               [] IsDigit(c, 10) \/ c \in {"+", "-", "."} ->
                    IF n = 1 THEN [err |-> FALSE, scheme |-> <<>>, rest |-> rawurl]
                    ELSE getScheme(rawurl, n + 1)
               [] c = ":" ->
                    IF n = 1 THEN [err |-> TRUE, scheme |-> <<>>, rest |-> <<>>]
                    ELSE [err |-> FALSE, scheme |-> SubSeq(rawurl, 1, n - 1),
                          rest |-> SubSeq(rawurl, n + 1, Len(rawurl))]
               [] OTHER -> [err |-> FALSE, scheme |-> <<>>, rest |-> rawurl]

\* the first path segment of rest holds a colon
ColonInFirstSegment(rest) ==
    \E n \in DOMAIN rest : rest[n] = ":" /\ \A m \in 1..(n - 1) : rest[m] # "/"

\* url.Parse of a url without fragment, query or host errors: [err, Scheme]
UrlParse(rawurl) ==
    LET g == getScheme(rawurl, 1)
    IN  IF \E n \in DOMAIN rawurl : rawurl[n] \in {NUL, SOH, STX, LF} \/ g.err
        THEN [err |-> TRUE, Scheme |-> <<>>]
        ELSE IF g.scheme = <<>> /\ g.rest # <<>> /\ g.rest[1] # "/"
                /\ ColonInFirstSegment(g.rest)
        THEN [err |-> TRUE, Scheme |-> <<>>]
        ELSE [err |-> FALSE, Scheme |-> ToLower(g.scheme)]

\* a collectSyncs that takes the sync value for granted
collectEntryAnySync(entry) ==
    IF EntryGet(entry, KeyName) = <<>> THEN "name"
    ELSE IF EntryGet(entry, KeyURL) = <<>> THEN "nokey"
    ELSE IF UrlParse(EntryGet(entry, KeyURL)).err THEN "unparseable"
    ELSE IF UrlParse(EntryGet(entry, KeyURL)).Scheme = syncSCP THEN "valid"
    ELSE "unknown"

\* the body of the loop of collectSyncs: what it does with one entry
collectEntry(entry) ==
    IF EntryGet(entry, KeySync) # S("true") THEN "continue"
    ELSE IF EntryGet(entry, KeyName) = <<>> THEN "name"
    ELSE IF EntryGet(entry, KeyURL) = <<>> THEN "nokey"
    ELSE IF UrlParse(EntryGet(entry, KeyURL)).err THEN "unparseable"
    ELSE IF UrlParse(EntryGet(entry, KeyURL)).Scheme = syncSCP THEN "valid"
    ELSE "unknown"

\* collectSyncs, second version: [validSyncs, warned, err]
collectSyncsURL(snap) ==
    [validSyncs |-> {uuid \in DOMAIN snap : collectEntry(snap[uuid]) = "valid"},
     warned |-> {uuid \in DOMAIN snap :
                    collectEntry(snap[uuid]) \in {"name", "nokey", "unparseable", "unknown"}},
     err |-> "nil"]

----------------------------------------------------------------------------
(* Calls of collectSyncs, txformat.Merge and the store's list operations *)

UrlScp == <<"s", "c", "p", ":", "/", "/", "h", "/", "f">>
UrlScpUpper == <<"S", "C", "P", ":", "/", "/", "h", "/", "f">>
UrlFtp == <<"f", "t", "p", ":", "/", "/", "h", "/", "f">>
UrlScpx == <<"s", "c", "p", "x", ":", "/", "/", "h", "/", "f">>
SyncURLs == {UrlScp, UrlScpUpper, UrlFtp, UrlScpx,
             <<"h", "/", "f">>, <<":", "/", "/", "h">>, <<"1", "h", ":", "f">>,
             <<"s", "c", "p", ":", "/", "/", "h", "/", LF>>}

\* an entry of the snapshot with the keys that are not empty
SyncEntry(sync, name, uri) ==
    LET has == [k \in {KeySync, KeyName, KeyURL} |->
                   CASE k = KeySync -> sync [] k = KeyName -> name [] OTHER -> uri]
    IN  [k \in {x \in DOMAIN has : has[x] # <<>>} |-> Scalar(has[k])]

SyncEntries ==
    {SyncEntry(sync, name, uri) : sync \in {<<>>, S("true"), S("false")},
                                  name \in {<<>>, S("n")},
                                  uri \in SyncURLs \cup {<<>>}}

SyncSnapshots ==
    {[u \in {"s1"} |-> e] : e \in SyncEntries}
    \cup {[u \in {"s1", "s2"} |-> IF u = "s1" THEN e ELSE f] :
             e \in SyncEntries,
             f \in {SyncEntry(S("true"), S("n"), UrlScp), SyncEntry(S("true"), S("n"), UrlFtp),
                    SyncEntry(S("false"), S("n"), UrlScp)}}

\* the transactions two peers may hold
ReplicaTxs ==
    {Tx(50, TxSet, "x", KeyName, S("n"), 0),
     Tx(100, TxDeleteKey, "x", "", <<>>, 0),
     Tx(200, TxSet, "x", KeyPass, S("y"), 0),
     Tx(200, TxSet, "x", KeyPass, S("z"), 0),
     Tx(200, TxSet, "e", KeyPass, S("y"), 0),
     Tx(300, TxSet, "x", KeyUser, S("y"), 0)}

\* the logs of a peer: sorted, every transaction once
ReplicaLogs == {SortTx(SeqOf(txs)) : txs \in SUBSET ReplicaTxs}

\* every conflict resolved the same way
ResolveAll(cfs, how) ==
    [n \in DOMAIN cfs |-> IF how = "restore" THEN Restore(cfs[n]) ELSE Delete(cfs[n])]

\* merge until no conflict is left, resolving each round's conflicts by how
RECURSIVE MergeResolved(_, _, _, _)
MergeResolved(a, b, resolved, how) ==
    LET m == Merge(a, b, resolved)
    IN  IF m.conflicts = <<>> \/ how = "none" THEN m
        ELSE MergeResolved(a, b, resolved \o ResolveAll(m.conflicts, how), how)

InitFn ==
    /\ Log = SortTx(SeqOf(LocalData))
    /\ Snapshot = Materialize(SortTx(SeqOf(LocalData))).snap
    /\ serverKeys = {}
    /\ scp = NoExchange
    /\ repl = NoRepl
    /\ InitRun
    /\ push = FALSE
    /\ \/ \E snap \in SyncSnapshots : fn = [op |-> "collectSyncs", pc |-> "call", snap |-> snap]
       \/ \E a \in ReplicaLogs, b \in ReplicaLogs, how \in {"none", "restore", "delete"} :
             fn = [op |-> "Merge", pc |-> "call", a |-> a, b |-> b, how |-> how]
       \/ fn = [op |-> "Store", pc |-> "call", log |-> <<>>, now |-> 1, assigned |-> <<>>]

\* collectSyncs is called on the snapshot
CallCollectSyncs ==
    /\ fn.op = "collectSyncs" /\ fn.pc = "call"
    /\ fn' = [op |-> "collectSyncs", pc |-> "done", snap |-> fn.snap,
              ret |-> collectSyncsURL(fn.snap)]
    /\ UNCHANGED <<syncVars, scp, repl>>

\* the two logs are merged in both orders
CallMerge ==
    /\ fn.op = "Merge" /\ fn.pc = "call"
    /\ fn' = [op |-> "Merge", pc |-> "done", a |-> fn.a, b |-> fn.b, how |-> fn.how,
              first |-> Merge(fn.a, fn.b, <<>>),
              ab |-> MergeResolved(fn.a, fn.b, <<>>, fn.how),
              ba |-> MergeResolved(fn.b, fn.a, <<>>, fn.how)]
    /\ UNCHANGED <<syncVars, scp, repl>>

\* Store.Append on the notes of entry e
CallAppend ==
    /\ fn.op = "Store" /\ Len(fn.log) < MaxOps
    /\ \E v \in {S("n1"), S("n2")} :
          LET log == StoreAppend(fn.log, fn.now, "e", KeyKnownHosts, v)
          IN  fn' = [fn EXCEPT !.log = log, !.now = @ + 1,
                               !.assigned = Append(@, log[Len(log)].Index)]
    /\ UNCHANGED <<syncVars, scp, repl>>

\* Store.DeleteList of an element of the list
CallDeleteList ==
    /\ fn.op = "Store" /\ Len(fn.log) < MaxOps
    /\ \E idx \in Range(fn.assigned) :
          fn' = [fn EXCEPT !.log = StoreDeleteList(@, fn.now, "e", KeyKnownHosts, idx),
                           !.now = @ + 1]
    /\ UNCHANGED <<syncVars, scp, repl>>

NextFn ==
    \/ CallCollectSyncs
    \/ CallMerge
    \/ CallAppend
    \/ CallDeleteList

SpecFn == InitFn /\ [][NextFn]_vars

----------------------------------------------------------------------------
(* The set command of the repl, the prompts of the ui helpers and of syncAdd *)

\* strings.TrimSpace
RECURSIVE TrimSpace(_)
TrimSpace(str) ==
    IF str = <<>> THEN str
    ELSE IF IsSpace(str[1]) THEN TrimSpace(Tail(str))
    ELSE IF IsSpace(str[Len(str)]) THEN TrimSpace(SubSeq(str, 1, Len(str) - 1))
    ELSE str

\* strings.Index: the offset of the first occurrence of sub in str, -1 if none
Index(str, sub) ==
    LET at == {off \in 0..(Len(str) - Len(sub)) :
                  \A n \in 1..Len(sub) : str[off + n] = sub[n]}
    IN  IF at = {} THEN -1 ELSE CHOOSE off \in at : \A other \in at : off <= other

\* repl.run, case "set", for a line with three arguments or more (two or
\* more when the repl is in an entry): what it does, and the name, key and
\* value it passes to set
replSet(input, ctxEntry) ==
    LET line == TrimSpace(input)
        splits == Tail(Fields(line))
        name == IF ctxEntry = <<>> THEN splits[1] ELSE ctxEntry
        args == IF ctxEntry = <<>> THEN Tail(splits) ELSE splits
        key == args[1]
        indexKey == Index(SubSeq(line, 4, Len(line)), key)
    IN  IF Len(args) > 2
        THEN IF indexKey <= 0
             THEN [what |-> "failed to parse", name |-> name, key |-> key, value |-> <<>>]
             ELSE [what |-> "set", name |-> name, key |-> key,
                   value |-> SubSeq(line, indexKey + 3 + 1 + Len(key) + 1, Len(line))]
        ELSE [what |-> "set", name |-> name, key |-> key, value |-> args[2]]

RECURSIVE Concat(_)
Concat(parts) == IF parts = <<>> THEN <<>> ELSE Head(parts) \o Concat(Tail(parts))

\* lines `set [name] key value`: the name is left out in an entry; the
\* value has two words
SetLines ==
    {[ctx |-> ctx, name |-> IF ctx = <<>> THEN name ELSE ctx, key |-> key, value |-> value, sep |-> sep,
      line |-> Concat(<<lead, <<"s", "e", "t", " ">>,
                        IF ctx = <<>> THEN name \o <<" ">> ELSE <<>>,
                        key, sep, value, trail>>)] :
        ctx \in {<<>>, <<"a">>},
        name \in {<<"a">>, <<"x", "k">>, <<"u", "s", "b">>},
        key \in {<<"k">>, <<"u", "s">>},
        sep \in {<<" ">>, <<"\t">>},
        value \in {<<"v", " ", "w">>, <<"v", " ", " ", "k">>, <<"v", "\t", "w">>},
        lead \in {<<>>, <<" ">>},
        trail \in {<<>>, <<" ">>}}

\* strings.Join(lines, "\n")
RECURSIVE Join(_)
Join(lines) ==
    IF lines = <<>> THEN <<>>
    ELSE IF Len(lines) = 1 THEN lines[1]
    ELSE lines[1] \o <<LF>> \o Join(Tail(lines))

\* what uiContext.prompt may return: a line, or no line and an error
PromptAnswers ==
    {[line |-> l, err |-> "nil"] : l \in {<<>>, <<".">>, <<"a">>, <<".", "a">>}}
    \cup {[line |-> <<>>, err |-> e] : e \in {"ErrEnd", "ErrInterrupt"}}

\* an iteration of promptMultiline that forgets the blank line it has seen
promptMultilineForgetsBlank(st, ans) ==
    IF ans.err = "ErrEnd" \/ ans.line = <<".">>
    THEN [st EXCEPT !.pc = "done", !.ret = [str |-> Join(st.lines), err |-> "nil"]]
    ELSE IF ans.err # "nil"
    THEN [st EXCEPT !.pc = "done", !.ret = [str |-> <<>>, err |-> ans.err]]
    ELSE IF Len(ans.line) = 0
    THEN IF st.oneBlank
         THEN [st EXCEPT !.pc = "done", !.ret = [str |-> Join(st.lines), err |-> "nil"]]
         ELSE [st EXCEPT !.oneBlank = TRUE]
    ELSE [st EXCEPT !.lines = Append(st.lines, ans.line), !.oneBlank = FALSE]

\* one iteration of the loop of promptMultiline on the answer of the prompt
promptMultiline(st, ans) ==
    IF ans.err = "ErrEnd" \/ ans.line = <<".">>
    THEN [st EXCEPT !.pc = "done", !.ret = [str |-> Join(st.lines), err |-> "nil"]]
    ELSE IF ans.err # "nil"
    THEN [st EXCEPT !.pc = "done", !.ret = [str |-> <<>>, err |-> ans.err]]
    ELSE IF Len(ans.line) = 0
    THEN IF st.oneBlank
         THEN [st EXCEPT !.pc = "done", !.ret = [str |-> Join(st.lines), err |-> "nil"]]
         ELSE [st EXCEPT !.oneBlank = TRUE]
    ELSE [st EXCEPT !.lines = (IF st.oneBlank THEN Append(st.lines, <<>>) ELSE st.lines)
                               \o <<ans.line>>,
                    !.oneBlank = FALSE]

\* 2^63 in decimal
TwoTo63 == <<"9", "2", "2", "3", "3", "7", "2", "0", "3", "6", "8", "5", "4", "7",
             "7", "5", "8", "0", "8">>

\* strconv.Atoi: [err, v, wide]; an int too wide to be enumerated is kept as
\* "min" (-2^63), "neg" or "pos"
Atoi(str) ==
    LET neg == str # <<>> /\ str[1] = "-"
        ds == IF str # <<>> /\ str[1] \in {"+", "-"} THEN Tail(str) ELSE str
        mag == StripZeros(ds)
    IN  IF ds = <<>> \/ \E n \in DOMAIN ds : ~IsDigit(ds[n], 10)
        THEN [err |-> "ErrSyntax", v |-> 0, wide |-> ""]
        ELSE IF ~DigitsLeq(mag, IF neg THEN TwoTo63 ELSE MaxInt64)
        THEN [err |-> "ErrRange", v |-> 0, wide |-> ""]
        ELSE IF Len(mag) > 9
        THEN [err |-> "nil", v |-> 0,
              wide |-> IF ~neg THEN "pos" ELSE IF mag = TwoTo63 THEN "min" ELSE "neg"]
        ELSE [err |-> "nil", wide |-> "",
              v |-> IF neg THEN 0 - DigitsValue(mag, 10) ELSE DigitsValue(mag, 10)]

\* integer-- on an int: -2^63 wraps to 2^63 - 1
Decrement(int) ==
    IF int.wide = "min" THEN [int EXCEPT !.wide = "pos"]
    ELSE IF int.wide # "" THEN int
    ELSE [int EXCEPT !.v = @ - 1]

\* integer < 0 || integer >= n
OutOfRange(int, n) ==
    \/ int.wide \in {"min", "neg", "pos"}
    \/ int.v < 0
    \/ int.v >= n

\* the texts a user may answer with
Numerals ==
    {<<>>, <<"x">>, <<"1", "x">>, <<"0">>, <<"1">>, <<"2">>, <<"3">>, <<"4">>,
     <<"-", "1">>, <<"-", "5">>, <<"+", "2">>, <<"2", "2">>, <<"0", "2", "2">>,
     <<"6", "5", "5", "3", "4">>, <<"6", "5", "5", "3", "5">>, <<"7", "0", "0", "0", "0">>,
     MaxInt64, TwoTo63, <<"-">> \o TwoTo63}

\* a getMenuChoice that does not look at the number of items
getMenuChoiceAnyNumber(st, choice, err) ==
    IF err # "nil" THEN [st EXCEPT !.pc = "done", !.ret = [choice |-> 0, err |-> err]]
    ELSE IF Atoi(choice).err # "nil" THEN [st EXCEPT !.asked = @ + 1]
    ELSE IF Decrement(Atoi(choice)).wide # "" \/ Decrement(Atoi(choice)).v < 0
    THEN [st EXCEPT !.asked = @ + 1]
    ELSE [st EXCEPT !.pc = "done",
                    !.ret = [choice |-> Decrement(Atoi(choice)).v, err |-> "nil"]]

\* getMenuChoice from the answer of the prompt on: it returns, or goes to Again
getMenuChoice(st, choice, err) ==
    IF err # "nil" THEN [st EXCEPT !.pc = "done", !.ret = [choice |-> 0, err |-> err]]
    ELSE IF Atoi(choice).err # "nil" THEN [st EXCEPT !.asked = @ + 1]
    ELSE IF OutOfRange(Decrement(Atoi(choice)), st.items) THEN [st EXCEPT !.asked = @ + 1]
    ELSE [st EXCEPT !.pc = "done",
                    !.ret = [choice |-> Decrement(Atoi(choice)).v, err |-> "nil"]]

\* syncAdd: the branch the switch on the key type takes
keyTypeSwitch(choice) ==
    CASE choice = 0 -> "ED25519"
      [] choice = 1 -> "RSA 4096"
      [] choice = 2 -> "Password"
      [] OTHER -> "panic"

\* syncAdd: the loop that asks for the port, on one answer; done.port is
\* what Store.Set stores under KeyPort
syncAddPort(st, port, err) ==
    IF err # "nil" THEN [st EXCEPT !.pc = "done", !.ret = [port |-> <<>>, err |-> err]]
    ELSE IF Len(port) = 0
    THEN [st EXCEPT !.pc = "done", !.ret = [port |-> <<"2", "2">>, err |-> "nil"]]
    ELSE IF Atoi(port).err # "nil" THEN [st EXCEPT !.asked = @ + 1]
    ELSE [st EXCEPT !.pc = "done", !.ret = [port |-> port, err |-> "nil"]]

InitUi ==
    /\ Log = SortTx(SeqOf(LocalData))
    /\ Snapshot = Materialize(SortTx(SeqOf(LocalData))).snap
    /\ serverKeys = {}
    /\ scp = NoExchange
    /\ repl = NoRepl
    /\ InitRun
    /\ push = FALSE
    /\ \/ \E l \in SetLines : fn = [op |-> "set", pc |-> "call", in |-> l]
       \/ fn = [op |-> "promptMultiline", pc |-> "loop", lines |-> <<>>,
                oneBlank |-> FALSE, read |-> <<>>, ret |-> [str |-> <<>>, err |-> "nil"]]
       \/ \E n \in 1..3 :
             fn = [op |-> "getMenuChoice", pc |-> "loop", items |-> n, asked |-> 0,
                   choice |-> <<>>, err |-> "nil", ret |-> [choice |-> 0, err |-> "nil"],
                   branch |-> ""]
       \/ fn = [op |-> "port", pc |-> "loop", asked |-> 0, choice |-> <<>>,
                err |-> "nil", ret |-> [port |-> <<>>, err |-> "nil"]]

\* the repl reads a set line
ReplSet ==
    /\ fn.op = "set" /\ fn.pc = "call"
    /\ fn' = [fn EXCEPT !.pc = "done"] @@ [ret |-> replSet(fn.in.line, fn.in.ctx)]
    /\ UNCHANGED <<syncVars, scp, repl>>

\* promptMultiline prompts and gets an answer
PromptMultiline ==
    /\ fn.op = "promptMultiline" /\ fn.pc = "loop" /\ Len(fn.read) < MaxAnswers
    /\ \E ans \in PromptAnswers :
          fn' = [promptMultiline(fn, ans) EXCEPT !.read = Append(@, ans)]
    /\ UNCHANGED <<syncVars, scp, repl>>

\* getMenuChoice prompts and gets an answer
GetMenuChoice ==
    /\ fn.op = "getMenuChoice" /\ fn.pc = "loop" /\ fn.asked < MaxAnswers
    /\ \/ \E choice \in Numerals :
             fn' = [getMenuChoice(fn, choice, "nil") EXCEPT !.choice = choice, !.err = "nil"]
       \/ \E err \in {"ErrEnd", "ErrInterrupt"} :
             fn' = [getMenuChoice(fn, <<>>, err) EXCEPT !.choice = <<>>, !.err = err]
    /\ UNCHANGED <<syncVars, scp, repl>>

\* syncAdd switches on the key type that getMenuChoice returned
SyncAddKeyType ==
    /\ fn.op = "getMenuChoice" /\ fn.pc = "done" /\ fn.items = 3
    /\ fn.ret.err = "nil" /\ fn.branch = ""
    /\ fn' = [fn EXCEPT !.branch = keyTypeSwitch(fn.ret.choice)]
    /\ UNCHANGED <<syncVars, scp, repl>>

\* syncAdd prompts for the port and gets an answer
SyncAddPort ==
    /\ fn.op = "port" /\ fn.pc = "loop" /\ fn.asked < MaxAnswers
    /\ \/ \E port \in Numerals :
             fn' = [syncAddPort(fn, port, "nil") EXCEPT !.choice = port, !.err = "nil"]
       \/ \E err \in {"ErrEnd", "ErrInterrupt"} :
             fn' = [syncAddPort(fn, <<>>, err) EXCEPT !.choice = <<>>, !.err = err]
    /\ UNCHANGED <<syncVars, scp, repl>>

NextUi ==
    \/ ReplSet
    \/ PromptMultiline
    \/ GetMenuChoice
    \/ SyncAddKeyType
    \/ SyncAddPort

SpecUi == InitUi /\ [][NextUi]_vars

----------------------------------------------------------------------------
(* Properties of sync *)

PullPcs == {"pull", "pullhostprompt", "recv", "decrypt", "passprompt"}
PushPcs == {"push", "pushhostprompt", "send"}

PushStarted == \E k \in DOMAIN obs.pushes : obs.pushes[k] > 0

AllPushedOnce == \A k \in 1..Len(syncs) : obs.pushes[k] = 1

\* no conflict between the local log and a pulled log, nor between two
\* pulled logs
NoConflictArises ==
    /\ \A k \in DOMAIN logs : Merge(obs.log0, logs[k], <<>>).conflicts = <<>>
    /\ \A j, k \in DOMAIN logs : Merge(logs[j], logs[k], <<>>).conflicts = <<>>

\* C1: when N >= 2 peers were pulled and parsed and no conflict arises, the
\* log that replaces the local log holds every transaction of the local log
\* and of each of the N pulled logs.
C1_EveryPulledLogMerged ==
    (obs.replaced /\ Len(logs) >= 2 /\ NoConflictArises) =>
        /\ Range(obs.log0) \subseteq Range(Log)
        /\ \A k \in DOMAIN logs : Range(logs[k]) \subseteq Range(Log)

\* C2: an answer R/r or D/d applies the resolution of a conflict exactly
\* once and mergeLogs moves on: no conflict is resolved twice, and mergeLogs
\* is never still asking about a conflict that has been resolved.
C2_ResolvedOnceThenNext ==
    /\ \A k \in DOMAIN obs.applied : obs.applied[k] <= 1
    /\ pc = "conflict" => obs.applied[ci] = 0

\* C3: after a prompt failed during conflict resolution sync has returned,
\* the log and the snapshot are those sync started from, no known_hosts line
\* was appended, nothing was serialized and no push was attempted.
C3_ResolutionAbortChangesNothing ==
    obs.mergeAbort =>
        /\ pc = "done"
        /\ Log = obs.log0
        /\ Snapshot = Materialize(obs.log0).snap
        /\ ~obs.replaced
        /\ obs.hostAppends = 0
        /\ obs.saves = 0
        /\ ~PushStarted

C3_Witness ==
    /\ obs.mergeAbort
    /\ push
    /\ DOMAIN hosts # {}
    /\ \E k \in DOMAIN obs.applied : obs.applied[k] >= 1

\* C4: pulls are made one per collected entry; once a push attempt has
\* started every pull has been made and finished, and none is in progress.
C4_PullsBeforePushes ==
    /\ obs.pulls <= Len(syncs)
    /\ pc \in PullPcs => obs.pulls \in {i - 1, i}
    /\ PushStarted => (obs.pulls = Len(syncs) /\ pc \notin PullPcs)

C4_Witness ==
    /\ Len(syncs) = 2
    /\ pc = "send"
    /\ obs.pushes = <<1, 1>>
    /\ obs.pulls = 2

\* C5: a failure of one peer during the pull phase leaves sync running at
\* the next entry with no log added; the merge starts only after every
\* collected entry was pulled, and a sync that returns without a failed
\* conflict prompt has replaced the log and, when pushing, pushed to every entry.
C5_PeerFailureNeverAborts ==
    /\ [][obs'.failed = obs.failed + 1 =>
            (pc' = "pull" /\ i' = i + 1 /\ logs' = logs /\ result' = "none")]_vars
    /\ [](obs.merged => obs.pulls = Len(syncs))
    /\ []((pc = "done" /\ ~obs.mergeAbort) =>
            (obs.merged /\ obs.replaced /\ result = "nil" /\ (push => AllPushedOnce)))

C5_Witness ==
    /\ pc = "done"
    /\ push
    /\ Len(syncs) = 2
    /\ obs.failed = 1
    /\ Len(logs) = 1
    /\ AllPushedOnce

ReplyNotFound(err) ==
    /\ err.type = "Err"
    /\ err.Code = 1
    /\ Contains(ToLower(err.Msg), NoSuchFile)

\* C7: a pull that failed with a reply of code 1 whose message contains "no
\* such file or directory", and no other, is classified not found; nothing of
\* that peer was decrypted or parsed, no log was added, sync goes on with the
\* next entry, and a pushing sync that returns has pushed to every entry.
C7_NotFoundPeerIsEmpty ==
    /\ []((obs.reply # NoError) => (ReplyNotFound(obs.reply) <=> obs.fail = "notfound"))
    /\ [](obs.fail = "notfound" =>
            (obs.decrypts = 0 /\ obs.newLogCalls = 0 /\ pc = "pull" /\ result = "none"))
    /\ [][obs'.notFound = obs.notFound + 1 => (logs' = logs /\ i' = i + 1)]_vars
    /\ []((pc = "done" /\ push /\ obs.replaced /\ obs.notFound >= 1) => AllPushedOnce)

C7_Witness ==
    /\ pc = "done"
    /\ push
    /\ Len(syncs) = 2
    /\ obs.notFound = 2
    /\ obs.replaced
    /\ AllPushedOnce

\* C8 as stated: decryptBlob issues at most one passphrase prompt per peer.
C8_AtMostOnePrompt == obs.passPrompts <= 1

\* C8 amended: the first attempt uses the in-memory passphrase without a
\* prompt, and decryptBlob prompts once after every attempt that failed with
\* ErrWrongPassphrase and after no other: a prompt is pending exactly when
\* the wrong-passphrase failures exceed the prompts issued by one.
C8_PromptAfterEachWrongPass ==
    /\ obs.decrypts = 0 => obs.passPrompts = 0
    /\ (pc = "decrypt" /\ obs.decrypts = 0) => tryPass = LocalPass
    /\ pc = "decrypt" => (obs.decrypts = obs.passPrompts /\ obs.wrong = obs.passPrompts)
    /\ pc = "passprompt" => (obs.decrypts = obs.wrong /\ obs.wrong = obs.passPrompts + 1)
    /\ pc \notin {"decrypt", "passprompt"} => obs.passPrompts = obs.wrong

C8_Witness ==
    /\ pc = "passprompt"
    /\ obs.passPrompts = 2
    /\ obs.wrong = 3

\* C9: when the user aborts the passphrase prompt, txformat.NewLog is not
\* called for that peer.
C9_AbortSkipsParser == obs.passAbort => obs.newLogCalls = 0

\* C10: once a prompt has returned ErrInterrupt sync pulls no further peer,
\* does not replace the log and pushes nothing.
C10_InterruptAbortsSync ==
    [][obs.lastErr = "ErrInterrupt" =>
         (obs'.pulls = obs.pulls /\ Log' = Log /\ obs'.pushes = obs.pushes)]_vars

\* C11: when the merged log that replaced the local log does not
\* materialize, the process has exited: no known_hosts line was appended,
\* nothing was serialized or encrypted, no push was attempted and sync did
\* not return; the process exits for no other reason.
C11_PoisonedSnapshotExits ==
    /\ (obs.replaced /\ ~Materialize(Log).ok) =>
          /\ pc = "exited"
          /\ result = "none"
          /\ obs.hostAppends = 0
          /\ obs.saves = 0 /\ obs.encrypts = 0
          /\ ~PushStarted
    /\ pc = "exited" => (obs.replaced /\ ~Materialize(Log).ok)

C11_Witness ==
    /\ pc = "exited"
    /\ push
    /\ DOMAIN hosts # {}
    /\ Len(syncs) = 2

----------------------------------------------------------------------------
(* Properties of the host-key callback *)

\* the sync entry of the connection whose callback obs.callback reports
LastEntry == IF pc \in {"pull", "push"} THEN syncs[i - 1] ELSE syncs[i]

\* the known_hosts list the callback of that connection was given
LastKnown == EntryList(Snapshot[LastEntry], KeyKnownHosts)

\* some known line has the hostname of the presented line and another key
\* type or another hash
Mismatch(known, presented) ==
    \E n \in DOMAIN known :
        LET v == Split(known[n].Value)
            q == Split(presented)
        IN  v[1] = q[1] /\ (v[3] # q[3] \/ v[4] # q[4])

\* some known line has the hostname, key type and hash of the presented line
Match(known, presented) ==
    \E n \in DOMAIN known :
        LET v == Split(known[n].Value)
            q == Split(presented)
        IN  v[1] = q[1] /\ v[3] = q[3] /\ v[4] = q[4]

\* C12: when the known_hosts list holds any line with the presented hostname
\* and a different key type or hash, the callback returns the MITM error,
\* does not prompt and records no new host line.
C12_AnyMismatchIsError ==
    (obs.callback # "" /\ Mismatch(LastKnown, obs.presented)) =>
        /\ obs.callback = "mitm"
        /\ pc \notin {"pullhostprompt", "pushhostprompt"}
        /\ asker.newHost = <<>>

\* no known line has the hostname of the presented line
Unknown(known, presented) ==
    \A n \in DOMAIN known : Split(known[n].Value)[1] # Split(presented)[1]

KnownHosts(snap, uuid) == EntryList(snap[uuid], KeyKnownHosts)

\* C13: the callback records a line only at its prompt, for an unknown host,
\* on the answer y or Y, and the line is the presented one; the pull loop
\* takes into the pending map the line of the entry being pulled, and only
\* that, whether the pull then fails or not, and keeps it; when sync replaces
\* the log and the rebuilt snapshot is good, every pending line is the new
\* last line of the known_hosts list of its entry.
C13_AcceptedHostsArePersisted ==
    /\ [][(asker'.newHost # asker.newHost /\ asker'.newHost # <<>>) =>
            /\ pc \in {"pullhostprompt", "pushhostprompt"}
            /\ obs.callback = "unknown"
            /\ Unknown(KnownHosts(Snapshot, syncs[i]), obs.presented)
            /\ obs'.hostAnswer \in {"y", "Y"}
            /\ asker'.newHost = obs.presented]_vars
    /\ [][(pc = "recv" /\ asker.newHost # <<>>) =>
            (syncs[i] \in DOMAIN hosts' /\ hosts'[syncs[i]] = asker.newHost)]_vars
    /\ [][(pc \in PullPcs /\ pc' \in PullPcs) =>
            /\ \A u \in DOMAIN hosts : u \in DOMAIN hosts' /\ hosts'[u] = hosts[u]
            /\ \A u \in DOMAIN hosts' \ DOMAIN hosts :
                  u = syncs[i] /\ hosts'[u] = asker.newHost /\ hosts'[u] # <<>>]_vars
    /\ [][(pc = "pull" /\ obs'.replaced /\ pc' # "exited") =>
            /\ obs'.hostAppends = Cardinality(DOMAIN hosts)
            /\ \A u \in DOMAIN hosts :
                  LET old == KnownHosts(Snapshot, u)
                      new == KnownHosts(Snapshot', u)
                  IN  /\ Len(new) = Len(old) + 1
                      /\ new[Len(new)].Value = hosts[u]
                      /\ SubSeq(new, 1, Len(old)) = old
            /\ \A u \in DOMAIN Snapshot \ DOMAIN hosts :
                  u \in DOMAIN Snapshot' /\ KnownHosts(Snapshot', u) = KnownHosts(Snapshot, u)]_vars

C13_Witness ==
    /\ pc = "done"
    /\ Len(syncs) = 2
    /\ obs.failed = 2
    /\ obs.hostAppends = 1
    /\ Len(KnownHosts(Snapshot, "s2")) = 1

\* the host lines this run appended to the known_hosts list of an entry
PersistedLines(uuid) ==
    {t.Value : t \in {x \in Range(Log) \ Range(obs.log0) :
                         x.UUID = uuid /\ x.Key = KeyKnownHosts /\ x.Kind = TxAddList}}

\* C14: in a connection made for an entry after a host line accepted for it
\* was persisted, the callback is given that line; when the server presents
\* the hostname, key type and hash of the line the callback accepts without
\* a prompt, and when it presents another key type or hash the callback
\* returns the MITM error.
C14_PersistedHostIsRecognized ==
    (pc \in PushPcs /\ obs.callback # "") =>
        \A L \in PersistedLines(LastEntry) :
            /\ \E n \in DOMAIN LastKnown : LastKnown[n].Value = L
            /\ obs.presented = L => (obs.callback = "ok" /\ pc # "pushhostprompt")
            /\ obs.presented # L => (obs.callback = "mitm" /\ pc = "push")

C14_Witness ==
    /\ pc = "push"
    /\ obs.callback = "mitm"
    /\ \E L \in PersistedLines(LastEntry) :
          /\ Split(L)[1] = Split(obs.presented)[1]
          /\ Split(L)[3] # Split(obs.presented)[3]

----------------------------------------------------------------------------
(* Properties of scpsync *)

\* the client end has returned
ScpDone == scp.cpc \in {"returned", "classified"}

\* the header line of a source that has a file
SentHeader == FormatHeader(scp.file.Mode, scp.file.size, scp.file.Filename)

\* what readFile returns for the file of the source
ReceivedFile ==
    [Mode |-> scp.file.Mode, Filename |-> Base(scp.file.Filename),
     Contents |-> scp.file.Contents, Length |-> Len(scp.file.Contents)]

\* C15: in source mode, against a sender that follows the protocol, readFile
\* writes three 0x00 bytes: before it reads anything, after the header line
\* and before any data byte, and after the data and its terminating 0x00;
\* it then returns the data with the mode and filename of the header.  If
\* the byte after the data is not 0x00 it returns an error and does not
\* write the third 0x00.
C15_SourceModeAcks ==
    (scp.op = "recv" /\ scp.kind \in {"file", "badterm"}) =>
        /\ Len(scp.acks) <= 3
        /\ Len(scp.acks) >= 1 => scp.acks[1] = 0
        /\ Len(scp.acks) >= 2 => scp.acks[2] = Len(SentHeader)
        /\ Len(scp.acks) >= 3 =>
              scp.acks[3] = Len(SentHeader) + Len(scp.file.Contents) + 1
        /\ (ScpDone /\ scp.kind = "file") =>
              /\ Len(scp.acks) = 3
              /\ scp.got.err = NoError
              /\ scp.got.file = ReceivedFile
        /\ (ScpDone /\ scp.kind = "badterm") =>
              /\ Len(scp.acks) = 2
              /\ scp.got.err # NoError

\* the replies of the sink that are not 0x00, in the order it wrote them
ErrorReplies == SelectSeq(scp.sent, LAMBDA m : m.kind = "reply" /\ m.bytes[1] \in {SOH, STX})

\* C16: in sink mode the client writes the header only after it has read
\* the sink's initial 0x00, writes the data only after it has read the 0x00
\* that acknowledges the header, and reports success only after the sink
\* has acknowledged the data and the terminating 0x00.
C16_SinkModeHandshake ==
    (scp.op = "send" /\ scp.cpc # "start") =>
        /\ scp.atHeader >= 1
        /\ scp.atData >= 2
        /\ (ScpDone /\ scp.got.err = NoError) =>
              /\ Len(scp.sent) = 3
              /\ \A k \in 1..3 : scp.sent[k].bytes = <<NUL>>
              /\ RepliesRead(scp.sent, scp.nread) = 3

\* C17: when the remote end replies 0x01 or 0x02 in place of a 0x00, in
\* source mode or in sink mode, the operation returns an Err whose Code is
\* that byte and whose Msg is the text that followed it, and does not
\* report success.
C17_ErrorReplyIsReturned ==
    (ScpDone /\ ErrorReplies # <<>>) =>
        scp.got.err = Err(ByteCode(ErrorReplies[1].bytes[1]), Tail(ErrorReplies[1].bytes))

\* the error lines that carry the words, in any case
NotFoundTexts == {MsgNotFound, MsgNotFoundUpper}

\* C18: IsNotFoundErr is true exactly of an Err with Code 1 whose Msg
\* contains "no such file or directory" in any case: false for Code 2 with
\* that message, for Code 1 with another message and for any other error.
C18_NotFoundIffCode1AndPhrase ==
    scp.cpc = "classified" =>
        (scp.notFound <=>
            /\ scp.kind = "reply"
            /\ scp.line[1] = SOH
            /\ Tail(scp.line) \in NotFoundTexts)

C18_Witness ==
    /\ scp.cpc = "classified"
    /\ scp.notFound
    /\ scp.line = <<SOH>> \o MsgNotFoundUpper

\* C19: the stream that sendFile writes for a content and a mode (header,
\* data, 0x00), read by readFile, yields the same content, its length and
\* the same mode.
C19_RoundTrip ==
    (scp.op = "recv" /\ scp.kind = "file" /\ ScpDone) =>
        /\ scp.got.err = NoError
        /\ Enumerated(scp.file) =>
              /\ scp.got.file.Contents = scp.file.Contents
              /\ scp.got.file.Length = Len(scp.file.Contents)
              /\ scp.got.file.Mode = scp.file.Mode

\* the fields of the header line that the source wrote
HeaderFields == Fields(Tail(scp.sent[1].bytes))

\* the header that the source wrote has a mode, a name, and a length in
\* 0 .. 2^63 - 1
Int64Header ==
    /\ scp.sent # <<>>
    /\ scp.sent[1].kind = "header"
    /\ scp.sent[1].bytes[1] = "C"
    /\ Len(HeaderFields) = 3
    /\ ParseInt32(HeaderFields[1], 8).err = "nil"
    /\ \A n \in DOMAIN HeaderFields[2] : IsDigit(HeaderFields[2][n], 10)
    /\ DigitsLeq(StripZeros(HeaderFields[2]), MaxInt64)

\* C20: readFile accepts every header whose length is in 0 .. 2^63 - 1; a
\* length of 2^31 or more is not rejected as unparsable.
C20_AcceptsInt64Lengths ==
    (scp.op = "recv" /\ ScpDone /\ Int64Header) =>
        scp.got.err.type # "failed to parse the length"

----------------------------------------------------------------------------
(* Properties of sync: the log and the hosts across the phases *)

\* C27: when the pull phase accumulated no peer log, the log that replaces
\* the store's log is the log before sync: afterwards the store's log holds
\* the transactions of that log in their order, and besides them only
\* appends to known_hosts lists.
C27_NoPeerLogKeepsLog ==
    (obs.merged /\ Len(logs) = 0) =>
        /\ SelectSeq(Log, LAMBDA t : t \in Range(obs.log0)) = obs.log0
        /\ \A t \in Range(Log) \ Range(obs.log0) :
              t.Kind = TxAddList /\ t.Key = KeyKnownHosts
        /\ Cardinality(Range(Log) \ Range(obs.log0)) = obs.hostAppends

C27_Witness ==
    /\ obs.merged
    /\ Len(logs) = 0
    /\ obs.failed + obs.notFound = 2
    /\ obs.hostAppends = 1
    /\ pc = "done"

\* C28: a host line that the user accepted during the push to an entry is
\* recorded for that entry when the push returns, also when the transfer
\* failed, as it is for a pull that failed.
C28_PushAcceptedHostKept ==
    [][(pc = "send" /\ asker.newHost # <<>>) =>
         (syncs[i] \in DOMAIN hosts' /\ hosts'[syncs[i]] = asker.newHost)]_vars

\* C29: a host line accepted during the pull of an entry is known when the
\* same sync pushes to that entry: when the server presents that line again
\* the callback accepts it without a prompt, and the push records no host
\* line for the entry.
C29_PullAcceptedHostKnownAtPush ==
    /\ (pc \in PushPcs /\ obs.callback # "" /\ LastEntry \in DOMAIN obs.accepted
            /\ obs.presented = obs.accepted[LastEntry]) =>
          /\ obs.callback = "ok"
          /\ obs.hostAnswer = ""
          /\ pc # "pushhostprompt"
          /\ asker.newHost = <<>>
          /\ LastEntry \notin DOMAIN hosts
    /\ (pc = "done" /\ PushStarted) =>
          \A u \in DOMAIN obs.accepted :
              Cardinality({n \in DOMAIN KnownHosts(Snapshot, u) :
                              KnownHosts(Snapshot, u)[n].Value = obs.accepted[u]}) = 1

C29_Witness ==
    /\ pc = "push"
    /\ i = 2
    /\ "s2" \in DOMAIN obs.accepted
    /\ LastEntry = "s2"
    /\ obs.presented = obs.accepted["s2"]
    /\ obs.callback = "ok"

----------------------------------------------------------------------------
(* Properties of the repl *)

\* the commands that take the entry of the context when no search is given
CdAware ==
    {"show", "set", "get", "cp", "open", "note", "rmnote", "label", "rmlabel",
     "pass", "user", "email", "totp"}

\* C22: `cd` without argument returns to root: the context entry is empty
\* after it; the prompt shows an entry name exactly when the context entry
\* is not empty; and a CD-aware command given without search, at a prompt
\* that shows no entry, is answered with a syntax message and calls no
\* handler.
C22_CdReturnsToRoot ==
    repl.pc # "none" =>
        /\ (repl.last.cmd = "cd" /\ repl.last.splits = <<>>) => repl.ctxEntry = ""
        /\ repl.prompt # NormalPrompt <=> repl.ctxEntry # ""
        /\ (repl.last.cmd \in CdAware /\ repl.last.splits = <<>>
                /\ repl.last.before = NormalPrompt) =>
              repl.last.what \in {"syntax", "sethelp"}

\* C30: run returns nil when the prompt reports ErrEnd, the error when the
\* prompt reports another error, and the error of the handler when the
\* handler of a command returns one; otherwise it prompts again.
C30_RunReturns ==
    repl.pc # "none" =>
        /\ repl.last.perr = "ErrEnd" => (repl.pc = "returned" /\ repl.ret = "nil")
        /\ repl.last.perr \notin {"nil", "ErrEnd"} =>
              (repl.pc = "returned" /\ repl.ret = repl.last.perr)
        /\ repl.last.herr # "nil" => (repl.pc = "returned" /\ repl.ret = repl.last.herr)
        /\ (repl.last.perr = "nil" /\ repl.last.herr = "nil") => repl.pc = "loop"

----------------------------------------------------------------------------
(* Properties of collectSyncs, of the merge and of the list indices *)

FnDone(op) == fn.op = op /\ fn.pc = "done"

\* the sync URLs whose scheme is scp
ScpURLs == {UrlScp, UrlScpUpper}

IsSyncTrue(entry) == KeySync \in DOMAIN entry /\ entry[KeySync].s = S("true")

Snap(log) == Materialize(log).snap

\* C23: Merge(A, B) and Merge(B, A) hold the same transactions and, with the
\* conflicts resolved the same way, materialize to the same snapshot
C23_MergeCommutes ==
    FnDone("Merge") =>
        /\ Range(fn.ab.log) = Range(fn.ba.log)
        /\ Snap(fn.ab.log) = Snap(fn.ba.log)

\* C24: Merge(A, A) is A and has no conflicts, also when A deletes an entry
\* and changes it afterwards
C24_MergeIdempotent ==
    (FnDone("Merge") /\ fn.a = fn.b) =>
        /\ fn.first.log = fn.a
        /\ fn.first.conflicts = <<>>

\* a log that deletes x and sets a key of x afterwards, merged with itself
C24_Witness ==
    /\ FnDone("Merge")
    /\ fn.a = fn.b
    /\ \E d \in Range(fn.a), t \in Range(fn.a) :
          IsEntryDelete(d) /\ d.UUID = "x" /\ t.UUID = "x" /\ t.Kind = TxSet /\ d.Time < t.Time
    /\ fn.first.log = fn.a

\* the transactions on x of a log from time 100 on
FromDelete(log) == {t \in Range(log) : t.UUID = "x" /\ t.Time >= 100}

\* log del deletes x at time 100, log set sets a key of x at time 200 by t
DeleteEdit(del, set, t) ==
    /\ FromDelete(del) = {Tx(100, TxDeleteKey, "x", "", <<>>, 0)}
    /\ FromDelete(set) = {t}
    /\ t.Kind = TxSet /\ t.Time = 200

\* C25: one log deletes x at time 100, the other sets a key of x at time 200:
\* the merge has exactly one conflict; after Restore x is in the snapshot with
\* the value set, after Delete x is not in the snapshot
C25_DeleteEditConflict ==
    FnDone("Merge") =>
        \A t \in Range(fn.a) \cup Range(fn.b) :
            (DeleteEdit(fn.a, fn.b, t) \/ DeleteEdit(fn.b, fn.a, t)) =>
                /\ Len(fn.first.conflicts) = 1
                /\ fn.how = "restore" =>
                      /\ "x" \in DOMAIN Snap(fn.ab.log)
                      /\ t.Key \in DOMAIN Snap(fn.ab.log)["x"]
                      /\ Snap(fn.ab.log)["x"][t.Key] = Scalar(t.Value)
                /\ fn.how = "delete" => "x" \notin DOMAIN Snap(fn.ab.log)

\* the conflict between the delete of x and the later set was restored
C25_Witness ==
    /\ FnDone("Merge")
    /\ fn.how = "restore"
    /\ \E t \in Range(fn.b) : DeleteEdit(fn.a, fn.b, t)
    /\ Len(fn.first.conflicts) = 1
    /\ fn.ab.conflicts = <<>>
    /\ "x" \in DOMAIN Snap(fn.ab.log)

----------------------------------------------------------------------------
(* Properties of the set command and of the prompts *)

\* C31: for a set line whose value has more than one word, the value passed
\* to set is the text of the line after the key argument and its separating
\* space, whatever the name and the key are
C31_SetValueIsRestOfLine ==
    FnDone("set") =>
        /\ fn.ret.what = "set"
        /\ fn.ret.name = fn.in.name
        /\ fn.ret.key = fn.in.key
        /\ fn.ret.value = fn.in.value

\* answer k ends the loop of promptMultiline: ".", the second of two empty
\* lines, the end of the input, or another error
IsStop(read, k) ==
    \/ read[k].err # "nil"
    \/ read[k].line = <<".">>
    \/ /\ read[k].line = <<>>
       /\ k > 1
       /\ read[k - 1].line = <<>>

\* the lines of the answers, without an empty line at the end
KeptLines(answers) ==
    LET lines == [k \in DOMAIN answers |-> answers[k].line]
    IN  IF lines # <<>> /\ lines[Len(lines)] = <<>>
        THEN SubSeq(lines, 1, Len(lines) - 1)
        ELSE lines

\* C32: promptMultiline reads until the first ".", second consecutive empty
\* line or end of input and returns the lines before it joined by newlines,
\* never ending with an empty line; another error of the prompt is returned
\* with an empty string
C32_PromptMultilineResult ==
    fn.op = "promptMultiline" =>
        /\ \A k \in 1..(Len(fn.read) - 1) : ~IsStop(fn.read, k)
        /\ fn.pc = "loop" => (fn.read = <<>> \/ ~IsStop(fn.read, Len(fn.read)))
        /\ fn.pc = "done" =>
              LET last == fn.read[Len(fn.read)]
                  before == SubSeq(fn.read, 1, Len(fn.read) - 1)
              IN  /\ IsStop(fn.read, Len(fn.read))
                  /\ IF last.err \notin {"nil", "ErrEnd"}
                     THEN fn.ret = [str |-> <<>>, err |-> last.err]
                     ELSE /\ fn.ret.err = "nil"
                          /\ fn.ret.str = Join(KeptLines(before))
                          /\ fn.ret.str = <<>> \/ fn.ret.str[Len(fn.ret.str)] # LF

\* a, an empty line, a and "." were read: the empty line is in the result
C32_Witness ==
    /\ fn.op = "promptMultiline"
    /\ fn.pc = "done"
    /\ Len(fn.read) = 4
    /\ fn.read[2].line = <<>> /\ fn.read[2].err = "nil"
    /\ fn.read[4].line = <<".">>
    /\ fn.ret.str = <<"a", LF, LF, "a">>

\* the answers that name one of n items, with the index they stand for
MenuAnswers(n) ==
    {a \in {[text |-> <<"1">>, index |-> 0], [text |-> <<"2">>, index |-> 1],
            [text |-> <<"+", "2">>, index |-> 1], [text |-> <<"3">>, index |-> 2],
            [text |-> <<"4">>, index |-> 3]} : a.index < n}

\* C33: getMenuChoice returns without error only an index from 0 to the
\* number of items less one, the one the answer names; it prompts again on
\* every other answer, and the switch on the key type never panics
C33_MenuChoiceInRange ==
    fn.op = "getMenuChoice" =>
        /\ (fn.pc = "done" /\ fn.ret.err = "nil") =>
              /\ fn.ret.choice \in 0..(fn.items - 1)
              /\ [text |-> fn.choice, index |-> fn.ret.choice] \in MenuAnswers(fn.items)
        /\ (fn.pc = "loop" /\ fn.asked > 0) =>
              /\ fn.err = "nil"
              /\ ~\E a \in MenuAnswers(fn.items) : a.text = fn.choice
        /\ fn.branch # "panic"

\* after two answers that were refused the third item is chosen
C33_Witness ==
    /\ fn.op = "getMenuChoice"
    /\ fn.items = 3
    /\ fn.asked = 2
    /\ fn.choice = <<"3">>
    /\ fn.branch = "Password"

\* the decimal texts of the integers from 1 to 65534 among the answers
PortTexts ==
    {<<"1">>, <<"2">>, <<"3">>, <<"4">>, <<"+", "2">>, <<"2", "2">>, <<"0", "2", "2">>,
     <<"6", "5", "5", "3", "4">>}

\* C34: the port syncAdd stores is "22" or the text of an integer from 1 to
\* 65534; every other answer is prompted for again
C34_PortInRange ==
    (fn.op = "port" /\ fn.pc = "done" /\ fn.ret.err = "nil") =>
        fn.ret.port \in PortTexts

====
